---- MODULE Spec2Model ----
(***************************************************************************)
(* A model of the mapping-and-export core of airr-poc:                     *)
(*   - the canonical normalizer   (backend/app/services/mapping_service.py)*)
(*   - the lenient JSON parsers   (extractor_service.py, mapping_service.py)*)
(*   - value coercion and the template projector                           *)
(*                                (workbook_export_service.py)             *)
(* Python values are encoded as records of one shape (PyVal) so that any   *)
(* two of them can be compared; strings are sequences of one-character     *)
(* strings so that strip/startswith/endswith/replace are computed.         *)
(***************************************************************************)
EXTENDS Integers, Sequences, FiniteSets, TLC

VARIABLES
    nPc,        \* normalizer: "off" | "ready" | "returned" | "raised"
    nArg,       \* the MappingResult object handed to _finalize_mapping (mutated by it)
    nArg0,      \* the same argument as it was before the call
    nCanonical, \* local `canonical` of _finalize_mapping after the last call
    nReport,    \* local `missing` of _finalize_mapping after the last call
    nRet,       \* the MappingResult returned by the last call
    nPrev,      \* the MappingResult returned by the call before it
    nCalls,     \* number of _finalize_mapping calls made
    clock,      \* datetime.utcnow(), as a counter
    cPc,        \* coercion: "off" | "call" | "done"
    cIn,        \* the value handed to _coerce_value
    cOut,       \* the value it returned
    xPc,        \* export_mapping: "off" | "start" | "scalars" | "unit_mix" |
                \*   "other_income" | "waterfall" | "save" | "done" | "raised"
    xPhase,     \* "first": the first export; "second": export_mapping called again;
                \*   "resheet": the _apply_* calls made again on the first export's sheet
    xTemplate,  \* the target sheet of the template file
    xDoc,       \* mapping.mapped of the export in progress
    xFirst,     \* mapping.mapped of the first export
    ws,         \* the target sheet of the working copy
    applied,    \* applied_fields
    wlog,       \* what the export in progress did to each cell it touched, in order
    xSheet1,    \* the sheet the first export saved
    pPc,        \* _json_safe: "off" | "call" | "done"
    pWho,       \* whose _json_safe ran: "extractor" | "mapping", "none" before the call
    pText,      \* the model's reply the caller holds
    pOut,       \* the value it returned
    sDb,        \* the session's record in the sessions collection
    sReq,       \* the requests in progress on the session: handler, position, locals
    sHist,      \* the MappingResults that _finalize_mapping calls have returned so far
    sClock,     \* datetime.utcnow() of the session service, as a counter
    sStarted,   \* number of writing requests made on the session so far
    sSeen,      \* the mapping the last GET /sessions/{id} returned
    sLast,      \* the last response a writing request ended with
    eTemplate,  \* the target sheet of the template file when the export calls start
    eFs,        \* the file system: path -> file
    eDirs,      \* number of directories tempfile.mkdtemp() has created
    eCalls,     \* session id -> the locals of its export_mapping call
    eCloud,     \* the upload store: export folder of a session -> uploaded file
    sStatus     \* the last response of GET /sessions/{id}/mapping/status

normVars == <<nPc, nArg, nArg0, nCanonical, nReport, nRet, nPrev, nCalls, clock>>

coerceVars == <<cPc, cIn, cOut>>

exportVars == <<xPc, xPhase, xTemplate, xDoc, xFirst, ws, applied, wlog, xSheet1>>

parseVars == <<pPc, pWho, pText, pOut>>

sessionVars == <<sDb, sReq, sHist, sClock, sStarted, sSeen, sLast>>

pairVars == <<eTemplate, eFs, eDirs, eCalls, eCloud>>

statusVars == <<sStatus>>

vars == <<normVars, coerceVars, exportVars, parseVars, sessionVars, pairVars, statusVars>>

\* what the steps of one component leave alone
notNorm == <<coerceVars, exportVars, parseVars, sessionVars, pairVars, statusVars>>
notCoerce == <<normVars, exportVars, parseVars, sessionVars, pairVars, statusVars>>
notExport == <<normVars, coerceVars, parseVars, sessionVars, pairVars, statusVars>>
notParse == <<normVars, coerceVars, exportVars, sessionVars, pairVars, statusVars>>
notSession == <<normVars, coerceVars, exportVars, parseVars, pairVars, statusVars>>
notPair == <<normVars, coerceVars, exportVars, parseVars, sessionVars, statusVars>>
notStatus == <<normVars, coerceVars, exportVars, parseVars, pairVars>>

(***************************************************************************)
(* Python values                                                           *)
(***************************************************************************)
PyVal(t, s, a, b, kids) == [t |-> t, s |-> s, a |-> a, b |-> b, kids |-> kids]
PyNone == PyVal("none", <<>>, 0, 1, <<>>)
PyStr(s) == PyVal("str", s, 0, 1, <<>>)
PyNum(a, b) == PyVal("num", <<>>, a, b, <<>>)
PyDict(kids) == PyVal("dict", <<>>, 0, 1, kids)
PyList(kids) == PyVal("list", <<>>, 0, 1, kids)
\* marks a key that the enumerated input leaves out; never a value of the program
Absent == PyVal("absent", <<>>, 0, 1, <<>>)

Item(k, v) == [k |-> k, v |-> v]

HasKey(d, key) == \E i \in 1..Len(d.kids) : d.kids[i].k = key

\* dict.get(key): the value under key, None when the key is not there
Get(d, key) ==
    IF HasKey(d, key)
    THEN d.kids[CHOOSE i \in 1..Len(d.kids) : d.kids[i].k = key].v
    ELSE PyNone

Keys(d) == {d.kids[i].k : i \in 1..Len(d.kids)}

\* Python truthiness (`x or default`)
Truthy(v) ==
    CASE v.t = "none" -> FALSE
      [] v.t = "str" -> Len(v.s) > 0
      [] v.t = "num" -> v.a # 0
      [] v.t \in {"dict", "list"} -> Len(v.kids) > 0
      [] v.t = "bool" -> v.a # 0
      [] OTHER -> TRUE

IsSpace(c) == c \in {" ", "\t", "\n", "\r"}

RECURSIVE LStrip(_)
LStrip(s) == IF Len(s) > 0 /\ IsSpace(Head(s)) THEN LStrip(Tail(s)) ELSE s

RECURSIVE RStrip(_)
RStrip(s) ==
    IF Len(s) > 0 /\ IsSpace(s[Len(s)]) THEN RStrip(SubSeq(s, 1, Len(s) - 1)) ELSE s

\* str.strip()
Strip(s) == RStrip(LStrip(s))

(***************************************************************************)
(* Schema registry (mapping_service.py).  model_schema.yaml is data; the   *)
(* model loads three sections: a scalar group, a scalar group that         *)
(* declares no fields, and a table.                                        *)
(***************************************************************************)
NONE == "None"

SchemaSections ==
    << [name |-> "growth_assumptions", kind |-> "scalar_group",
        label |-> "Growth Assumptions",
        fields |-> << [name |-> "market_rent_growth", label |-> "Market Rent Growth"],
                      [name |-> "taxes_growth", label |-> NONE] >>],
       [name |-> "empty_group", kind |-> "scalar_group",
        label |-> NONE,
        fields |-> << >>],
       [name |-> "unit_mix", kind |-> "table",
        label |-> "Unit Mix",
        fields |-> << [name |-> "unit_type", label |-> "Unit Type"],
                      [name |-> "num_units", label |-> NONE] >>] >>

SectionNames == {SchemaSections[i].name : i \in 1..Len(SchemaSections)}

Section(name) == SchemaSections[CHOOSE i \in 1..Len(SchemaSections) : SchemaSections[i].name = name]

\* sections.get(name, {}).get("kind")
SectionKind(name) == IF name \in SectionNames THEN Section(name).kind ELSE NONE

FieldNames(sec) == {sec.fields[i].name : i \in 1..Len(sec.fields)}

\* _schema_version(): the first 12 hex digits of the schema text's sha1
SchemaVersion == "3f2a9c01d4e7"

\* _table_labels(): label or name
TableLabels == [n \in SectionNames |-> IF Section(n).label = NONE THEN n ELSE Section(n).label]

\* _field_labels(): per section, field (or column) -> label or name
FieldLabels ==
    [n \in SectionNames |->
        [f \in FieldNames(Section(n)) |->
            LET fd == Section(n).fields[CHOOSE i \in 1..Len(Section(n).fields) :
                                            Section(n).fields[i].name = f]
            IN IF fd.label = NONE THEN f ELSE fd.label]]

\* labels.get(key): None when the key is not there
LabelGet(labels, key) == IF key \in DOMAIN labels THEN labels[key] ELSE NONE

(***************************************************************************)
(* Canonical normalizer (mapping_service.py)                               *)
(***************************************************************************)
\* a shape step that copies a supplied scalar-group object instead of rebuilding it
\* from the declared fields
ShapeCopiesGroup(mapped) ==
    PyDict([i \in 1..Len(SchemaSections) |->
        LET sec == SchemaSections[i]
            value == IF mapped.t = "dict" THEN Get(mapped, sec.name) ELSE PyNone
        IN  Item(sec.name,
                 IF sec.kind = "scalar_group"
                 THEN IF value.t = "dict" THEN value ELSE PyDict(<<>>)
                 ELSE IF value.t = "none" THEN PyList(<<>>) ELSE value)])

\* _ensure_canonical_shape(mapped)
EnsureCanonicalShape(mapped) ==
    LET Shape(sec) ==
            LET value == IF mapped.t = "dict" THEN Get(mapped, sec.name) ELSE PyNone
            IN  IF sec.kind = "scalar_group"
                THEN LET source_fields == IF value.t = "dict" THEN value ELSE PyDict(<<>>)
                     IN  PyDict([i \in 1..Len(sec.fields) |->
                                    Item(sec.fields[i].name, Get(source_fields, sec.fields[i].name))])
                ELSE IF sec.kind = "table"
                THEN IF value.t = "none" THEN PyList(<<>>) ELSE value
                ELSE value
    IN  PyDict([i \in 1..Len(SchemaSections) |->
                   Item(SchemaSections[i].name, Shape(SchemaSections[i]))])

\* a MissingField model object (schemas/mapping.py)
MissingField(table, field, reason, confidence, table_label, field_label) ==
    [table |-> table, field |-> field, reason |-> reason, confidence |-> confidence,
     source_fields |-> NONE, table_label |-> table_label, field_label |-> field_label]

\* `a or b` on Optional[str]
StrOr(a, b) == IF a # NONE /\ a # "" THEN a ELSE b

\* `not field_labels.get(table)`: no entry, or an empty dict
NoFieldLabels(table) == table \notin DOMAIN FieldLabels \/ DOMAIN FieldLabels[table] = {}

\* field_labels.get(table, {}).get(field)
FieldLabelGet(table, field) ==
    IF table \in DOMAIN FieldLabels THEN LabelGet(FieldLabels[table], field) ELSE NONE

\* a first loop that forgets to record the pairs it keeps
UpstreamStepForgetsSeen(acc, item, canonical) ==
    IF ~HasKey(canonical, item.table)
    THEN [acc EXCEPT !.items = Append(@, item)]
    ELSE [acc EXCEPT !.normalized = Append(@, item), !.items = Append(@, item)]

\* one iteration of the first loop of _normalize_missing_fields (lines 233-247).
\* acc.items is the caller's list as the loop leaves it: kept scalar entries are
\* labelled in place, and the very same objects are appended to `normalized`.
UpstreamStep(acc, item, canonical) ==
    IF ~HasKey(canonical, item.table)
    THEN [acc EXCEPT !.items = Append(@, item)]
    ELSE IF SectionKind(item.table) = "table"
    THEN [normalized |-> Append(acc.normalized, item),
          seen |-> acc.seen \cup {<<item.table, item.field>>},
          items |-> Append(acc.items, item)]
    ELSE IF ~NoFieldLabels(item.table) /\ item.field \notin DOMAIN FieldLabels[item.table]
    THEN [acc EXCEPT !.items = Append(@, item)]
    ELSE LET labelled == [item EXCEPT
                            !.table_label = StrOr(@, LabelGet(TableLabels, item.table)),
                            !.field_label = StrOr(@, FieldLabelGet(item.table, item.field))]
         IN  [normalized |-> Append(acc.normalized, labelled),
              seen |-> acc.seen \cup {<<item.table, item.field>>},
              items |-> Append(acc.items, labelled)]

RECURSIVE UpstreamLoop(_, _, _)
UpstreamLoop(missing_fields, canonical, n) ==
    IF n = 0
    THEN [normalized |-> <<>>, seen |-> {}, items |-> <<>>]
    ELSE UpstreamStep(UpstreamLoop(missing_fields, canonical, n - 1), missing_fields[n], canonical)

\* the (table, field_name, field_value) triples the second loop visits, in its order
RECURSIVE ScalarCells(_, _)
ScalarCells(canonical, n) ==
    IF n = 0 THEN <<>>
    ELSE LET table == canonical.kids[n].k
             value == canonical.kids[n].v
             own == IF SectionKind(table) # "scalar_group" THEN <<>>
                    ELSE IF ~Truthy(value) THEN <<>>
                    ELSE [i \in 1..Len(value.kids) |->
                             [table |-> table, field |-> value.kids[i].k, value |-> value.kids[i].v]]
         IN  ScalarCells(canonical, n - 1) \o own

\* a test that takes only None for a missing value
IsBlankOnlyNone(v) == v.t = "none"

\* field_value is None or (isinstance(field_value, str) and not field_value.strip())
IsBlank(v) == v.t = "none" \/ (v.t = "str" /\ Len(Strip(v.s)) = 0)

\* one iteration of the inner loop of lines 254-268
SynthStep(acc, cell) ==
    IF <<cell.table, cell.field>> \in acc.seen THEN acc
    ELSE IF IsBlank(cell.value)
    THEN [acc EXCEPT
            !.normalized = Append(@, MissingField(cell.table, cell.field,
                                      "Value missing after mapping", NONE,
                                      LabelGet(TableLabels, cell.table),
                                      FieldLabelGet(cell.table, cell.field))),
            !.seen = @ \cup {<<cell.table, cell.field>>}]
    ELSE acc

RECURSIVE SynthLoop(_, _, _)
SynthLoop(acc, cells, n) ==
    IF n = 0 THEN acc ELSE SynthStep(SynthLoop(acc, cells, n - 1), cells[n])

\* _normalize_missing_fields(missing_fields, canonical): the returned list
\* (.normalized) and the caller's list after the call (.items)
NormalizeMissingFields(missing_fields, canonical) ==
    LET kept == UpstreamLoop(missing_fields, canonical, Len(missing_fields))
        cells == ScalarCells(canonical, Len(canonical.kids))
    IN  SynthLoop(kept, cells, Len(cells))

\* MappingResult(mapped=...): mapped is Dict[str, Dict[str, Any]], so pydantic
\* rejects a mapping that has a value that is not a dict
MappingResultValid(mapped) ==
    mapped.t = "dict" /\ \A i \in 1..Len(mapped.kids) : mapped.kids[i].v.t = "dict"

\* a stamp that keeps a timestamp and labels the caller supplied
StampKeepsSupplied(metadata, now) ==
    [generated_at |-> IF metadata.generated_at # 0 THEN metadata.generated_at ELSE now,
     warnings |-> metadata.warnings,
     model_version |-> StrOr(metadata.model_version, SchemaVersion),
     table_labels |-> IF metadata.table_labels # <<>> THEN metadata.table_labels ELSE TableLabels,
     field_labels |-> FieldLabels]

\* metadata as stamped by lines 275-279
StampMetadata(metadata, now) ==
    [generated_at |-> now,
     warnings |-> metadata.warnings,
     model_version |-> StrOr(metadata.model_version, SchemaVersion),
     table_labels |-> TableLabels,
     field_labels |-> FieldLabels]

\* a finalize step that starts from the caller's object and overwrites the schema's
\* sections in it, so that undeclared sections survive
FinalizeKeepsUnknown(result, now) ==
    LET src == IF Truthy(result.mapped) THEN result.mapped ELSE PyDict(<<>>)
        shaped == EnsureCanonicalShape(src)
        extra == IF src.t = "dict"
                 THEN SelectSeq(src.kids, LAMBDA it : it.k \notin SectionNames)
                 ELSE <<>>
        canonical == PyDict(shaped.kids \o extra)
        nmf == NormalizeMissingFields(result.missing_fields, canonical)
        metadata == StampMetadata(result.metadata, now)
    IN  [canonical |-> canonical,
         missing |-> nmf.normalized,
         arg |-> [mapped |-> result.mapped, missing_fields |-> nmf.items, metadata |-> metadata],
         ok |-> MappingResultValid(canonical),
         ret |-> [mapped |-> canonical, missing_fields |-> nmf.normalized, metadata |-> metadata]]

\* _finalize_mapping(result) at time `now`: the locals, the argument as the call
\* leaves it, and the returned MappingResult (ok) or the ValidationError (~ok)
FinalizeMapping(result, now) ==
    LET canonical == EnsureCanonicalShape(IF Truthy(result.mapped) THEN result.mapped ELSE PyDict(<<>>))
        nmf == NormalizeMissingFields(result.missing_fields, canonical)
        metadata == StampMetadata(result.metadata, now)
    IN  [canonical |-> canonical,
         missing |-> nmf.normalized,
         arg |-> [mapped |-> result.mapped, missing_fields |-> nmf.items, metadata |-> metadata],
         ok |-> MappingResultValid(canonical),
         ret |-> [mapped |-> canonical, missing_fields |-> nmf.normalized, metadata |-> metadata]]

(***************************************************************************)
(* The normalizer's callers: map_to_canonical / normalize_mapping call     *)
(* _finalize_mapping on a MappingResult; the client may send a returned    *)
(* mapping back (PUT /sessions/{id}/mapping -> normalize_mapping).         *)
(***************************************************************************)
MaxUpstream == 2    \* longest upstream missing-field list enumerated
MaxCalls == 2       \* _finalize_mapping calls in one behaviour

SeqsUpTo(S, n) == UNION {[1..k -> S] : k \in 0..n}

\* <<(key, v)>>, or nothing when the input leaves the key out
Opt(key, v) == IF v = Absent THEN <<>> ELSE <<Item(key, v)>>

SomeText == PyStr(<<"7">>)
BlankText == PyStr(<<" ">>)

GrowthDicts ==
    { PyDict(Opt("bogus_field", x) \o Opt("market_rent_growth", a) \o Opt("taxes_growth", b)) :
        a \in {Absent, PyNone, BlankText, SomeText},
        b \in {Absent, SomeText},
        x \in {Absent, SomeText} }

GrowthInputs == GrowthDicts \cup {Absent, PyNone, PyList(<<>>), SomeText}

EmptyGroupInputs == {Absent, PyDict(<<Item("bogus_field", SomeText)>>)}

UnitMixRow == PyDict(<<Item("unit_type", PyStr(<<"A">>)), Item("num_units", PyNum(3, 1))>>)

UnitMixInputs ==
    {Absent, PyNone, PyList(<<Item("", UnitMixRow)>>), PyDict(<<Item("rows", SomeText)>>), SomeText}

BogusSectionInputs == {Absent, PyDict(<<Item("market_rent_growth", SomeText)>>)}

MappedDicts ==
    { PyDict(Opt("bogus_section", x) \o Opt("unit_mix", u) \o Opt("growth_assumptions", g)
             \o Opt("empty_group", e)) :
        g \in GrowthInputs, e \in EmptyGroupInputs, u \in UnitMixInputs, x \in BogusSectionInputs }

MappedInputs == MappedDicts \cup {PyNone, SomeText}

\* the inputs every upstream list is combined with
CoreMapped ==
    { PyDict(Opt("unit_mix", u) \o Opt("growth_assumptions", g)) :
        g \in GrowthDicts, u \in {PyList(<<Item("", UnitMixRow)>>), PyDict(<<Item("rows", SomeText)>>)} }

UpstreamPool ==
    { MissingField("growth_assumptions", "market_rent_growth", "not in source", "low", NONE, NONE),
      MissingField("growth_assumptions", "market_rent_growth", "ambiguous", NONE, "Growth", "Rent growth"),
      MissingField("growth_assumptions", "taxes_growth", "not in source", NONE, NONE, NONE),
      MissingField("growth_assumptions", "bogus_field", "not in source", NONE, NONE, NONE),
      MissingField("empty_group", "market_rent_growth", "not in source", NONE, NONE, NONE),
      MissingField("unit_mix", "unit_type", "no rows", NONE, NONE, NONE),
      MissingField("unit_mix", "bogus_field", "no rows", NONE, NONE, NONE),
      MissingField("bogus_section", "market_rent_growth", "not in source", NONE, NONE, NONE) }

\* labels a client holds from an earlier version of the schema
StaleTableLabels == [growth_assumptions |-> "Growth", retired_section |-> "Retired"]
StaleFieldLabels == [growth_assumptions |-> [market_rent_growth |-> "Rent growth"]]

MetadataInputs ==
    { [generated_at |-> 0, warnings |-> NONE, model_version |-> mv,
       table_labels |-> <<>>, field_labels |-> <<>>] : mv \in {NONE, "client-v1"} }
    \cup { [generated_at |-> 7, warnings |-> <<"low confidence">>, model_version |-> "",
            table_labels |-> StaleTableLabels, field_labels |-> StaleFieldLabels] }

NoResult == [mapped |-> PyNone, missing_fields |-> <<>>,
             metadata |-> [generated_at |-> 0, warnings |-> NONE, model_version |-> NONE,
                           table_labels |-> <<>>, field_labels |-> <<>>]]

NormInit ==
    /\ nPc = "ready"
    /\ nArg \in [mapped : MappedInputs,
                 missing_fields : SeqsUpTo(UpstreamPool, MaxUpstream),
                 metadata : MetadataInputs]
    /\ (Len(nArg.missing_fields) <= 1 \/ nArg.mapped \in CoreMapped)
    /\ nArg0 = nArg
    /\ nCanonical = PyNone
    /\ nReport = <<>>
    /\ nRet = NoResult
    /\ nPrev = NoResult
    /\ nCalls = 0
    /\ clock = 1

NormIdle ==
    /\ nPc = "off"
    /\ nArg = NoResult
    /\ nArg0 = NoResult
    /\ nCanonical = PyNone
    /\ nReport = <<>>
    /\ nRet = NoResult
    /\ nPrev = NoResult
    /\ nCalls = 0
    /\ clock = 1

\* normalize_mapping(mapping) / the tail of map_to_canonical: one _finalize_mapping call
NormalizeCall ==
    /\ nPc = "ready"
    /\ LET r == FinalizeMapping(nArg, clock)
       IN  /\ nCanonical' = r.canonical
           /\ nReport' = r.missing
           /\ nArg' = r.arg
           /\ nPrev' = nRet
           /\ nRet' = IF r.ok THEN r.ret ELSE NoResult
           /\ nPc' = IF r.ok THEN "returned" ELSE "raised"
    /\ nCalls' = nCalls + 1
    /\ clock' = clock + 1
    /\ UNCHANGED nArg0
    /\ UNCHANGED notNorm

\* the client sends the returned mapping back (save_mapping's payload)
Resubmit ==
    /\ nPc = "returned"
    /\ nCalls < MaxCalls
    /\ nArg' = nRet
    /\ nArg0' = nRet
    /\ nPc' = "ready"
    /\ UNCHANGED <<nCanonical, nReport, nRet, nPrev, nCalls, clock>>
    /\ UNCHANGED notNorm

NormNext == NormalizeCall \/ Resubmit

(***************************************************************************)
(* Claims about the normalizer (checked under SpecNormalize)               *)
(***************************************************************************)
Synthesized(e) == e.reason = "Value missing after mapping"

ScalarGroups == {n \in SectionNames : Section(n).kind = "scalar_group"}

\* C1: a mapping returned by normalize and fed back into normalize comes back with
\* the same sections, fields and values and the same missing-field report (same
\* entries, same order); of the metadata only generated_at may differ.
C1_IdempotentNormalization ==
    (nPc = "returned" /\ nCalls >= 2) =>
        /\ nRet.mapped = nPrev.mapped
        /\ nRet.missing_fields = nPrev.missing_fields
        /\ [nRet.metadata EXCEPT !.generated_at = 0] = [nPrev.metadata EXCEPT !.generated_at = 0]

\* a second call has returned a report that holds a retained upstream entry and a
\* synthesized entry, over a document with a supplied value
C1_Witness ==
    /\ nPc = "returned"
    /\ nCalls = 2
    /\ \E i, j \in 1..Len(nRet.missing_fields) :
          Synthesized(nRet.missing_fields[i]) /\ ~Synthesized(nRet.missing_fields[j])
    /\ Get(Get(nRet.mapped, "growth_assumptions"), "taxes_growth") = SomeText
    /\ nRet.metadata.generated_at # nPrev.metadata.generated_at

\* the value the caller's input supplies for (section, field), None when it
\* supplies none
Supplied(mapped, section, field) ==
    IF mapped.t = "dict" /\ Get(mapped, section).t = "dict"
    THEN Get(Get(mapped, section), field)
    ELSE PyNone

\* C2: after normalize, the canonical document holds every scalar-group section of
\* the schema, each with exactly its declared fields as keys, and with null for
\* every field the input did not supply.
C2_ShapeCompleteness ==
    nPc \in {"returned", "raised"} =>
        \A n \in ScalarGroups :
            /\ HasKey(nCanonical, n)
            /\ Get(nCanonical, n).t = "dict"
            /\ Keys(Get(nCanonical, n)) = FieldNames(Section(n))
            /\ Len(Get(nCanonical, n).kids) = Cardinality(FieldNames(Section(n)))
            /\ \A f \in FieldNames(Section(n)) :
                  Get(Get(nCanonical, n), f) = Supplied(nArg0.mapped, n, f)

\* normalize has run on an object that omits one scalar group and gives a
\* non-object for the other
C2_Witness ==
    /\ nPc \in {"returned", "raised"}
    /\ nArg0.mapped.t = "dict"
    /\ ~HasKey(nArg0.mapped, "empty_group")
    /\ HasKey(nArg0.mapped, "growth_assumptions")
    /\ Get(nArg0.mapped, "growth_assumptions").t = "list"
    /\ Get(Get(nCanonical, "growth_assumptions"), "market_rent_growth") = PyNone

\* C3: no (section, field) pair appears twice in the missing-field report that
\* normalize computes, even when the upstream list repeats a pair.
C3_MissingFieldExclusivity ==
    nPc \in {"returned", "raised"} =>
        \A i, j \in 1..Len(nReport) :
            (nReport[i].table = nReport[j].table /\ nReport[i].field = nReport[j].field) => i = j

\* C4: after normalize, every key of the canonical document is a schema section and
\* every key of a scalar-group object is a field declared for that section.
C4_UnknownDataDropped ==
    nPc \in {"returned", "raised"} =>
        /\ Keys(nCanonical) \subseteq SectionNames
        /\ \A n \in ScalarGroups \cap Keys(nCanonical) :
              Get(nCanonical, n).t = "dict" =>
                  Keys(Get(nCanonical, n)) \subseteq FieldNames(Section(n))

\* normalize has run on an input with an undeclared section and an undeclared
\* field inside a declared scalar group
C4_Witness ==
    /\ nPc \in {"returned", "raised"}
    /\ nArg0.mapped.t = "dict"
    /\ HasKey(nArg0.mapped, "bogus_section")
    /\ Get(nArg0.mapped, "growth_assumptions").t = "dict"
    /\ HasKey(Get(nArg0.mapped, "growth_assumptions"), "bogus_field")
    /\ HasKey(Get(nArg0.mapped, "empty_group"), "bogus_field")

\* C12: a call to normalize leaves its arguments as they were: the caller's mapped
\* object, every caller-supplied missing-field entry (its table_label and
\* field_label included) and the caller's metadata object have the same content
\* after the call as before it.
C12_NormalizeIsPure ==
    nPc \in {"returned", "raised"} =>
        /\ nArg.mapped = nArg0.mapped
        /\ nArg.missing_fields = nArg0.missing_fields
        /\ nArg.metadata = nArg0.metadata

\* the place of a section in the schema's declared order (0: not a section)
SectionIndex(table) ==
    IF table \in SectionNames
    THEN CHOOSE i \in 1..Len(SchemaSections) : SchemaSections[i].name = table
    ELSE 0

\* the place of a field in its section's declared order (0: not declared)
FieldIndex(table, field) ==
    IF table \in SectionNames /\ field \in FieldNames(Section(table))
    THEN CHOOSE i \in 1..Len(Section(table).fields) : Section(table).fields[i].name = field
    ELSE 0

\* a comes no later than b in the schema's section order, then field order
SchemaOrdered(a, b) ==
    \/ SectionIndex(a.table) < SectionIndex(b.table)
    \/ /\ SectionIndex(a.table) = SectionIndex(b.table)
       /\ FieldIndex(a.table, a.field) <= FieldIndex(b.table, b.field)

\* the caller's list names the pair (table, field)
InUpstream(table, field) ==
    \E i \in 1..Len(nArg0.missing_fields) :
        nArg0.missing_fields[i].table = table /\ nArg0.missing_fields[i].field = field

\* the returned report names the pair (table, field)
InReport(table, field) ==
    \E j \in 1..Len(nRet.missing_fields) :
        nRet.missing_fields[j].table = table /\ nRet.missing_fields[j].field = field

\* a value that is null or a string that is empty after trimming
NullOrBlankText(v) == v.t = "none" \/ (v.t = "str" /\ Len(Strip(v.s)) = 0)

\* C16: in the report returned by normalize, every retained upstream entry precedes
\* every synthesized entry, and inside the upstream group and inside the
\* synthesized group the entries follow the schema's section order and, within a
\* section, its field order.
C16_ReportOrder ==
    nPc = "returned" =>
        \A i, j \in 1..Len(nRet.missing_fields) :
            i < j =>
                LET a == nRet.missing_fields[i]
                    b == nRet.missing_fields[j]
                    aUp == InUpstream(a.table, a.field)
                    bUp == InUpstream(b.table, b.field)
                IN  /\ ~(~aUp /\ bUp)
                    /\ (aUp = bUp) => SchemaOrdered(a, b)

\* C17: normalize keeps an upstream missing-field entry exactly when its section is a
\* schema section and either the section is a table, or it is a scalar group that
\* declares the entry's field; for a scalar group that declares no fields every
\* upstream entry is dropped.
C17_UpstreamFilter ==
    nPc = "returned" =>
        \A i \in 1..Len(nArg0.missing_fields) :
            LET item == nArg0.missing_fields[i]
            IN  InReport(item.table, item.field) <=>
                    /\ item.table \in SectionNames
                    /\ \/ SectionKind(item.table) = "table"
                       \/ /\ SectionKind(item.table) = "scalar_group"
                          /\ item.field \in FieldNames(Section(item.table))

C19_MissingFieldSoundness ==
    nPc = "returned" =>
        \A j \in 1..Len(nRet.missing_fields) :
            LET e == nRet.missing_fields[j]
            IN  e.table \in ScalarGroups =>
                    NullOrBlankText(Get(Get(nRet.mapped, e.table), e.field))

\* the value the caller's input gives for a section: None when the input is not an
\* object or leaves the section out
SectionInput(mapped, name) == IF mapped.t = "dict" THEN Get(mapped, name) ELSE PyNone

\* C20: for every table section normalize gives back the input array when the input
\* is an array, an empty array when it is null or absent, and any other value
\* unchanged; and in none of these cases does normalize raise, the construction
\* of the returned MappingResult included.
C20_TableShapeHandling ==
    nPc \in {"returned", "raised"} =>
        /\ \A n \in SectionNames :
              SectionKind(n) = "table" =>
                  Get(nCanonical, n) =
                      IF SectionInput(nArg0.mapped, n).t = "none"
                      THEN PyList(<<>>)
                      ELSE SectionInput(nArg0.mapped, n)
        /\ nPc = "returned"

\* C21: after every normalize call the returned metadata has generated_at equal to
\* the time of the call, model_version equal to the caller's value when that is a
\* non-empty string and to the schema fingerprint otherwise, table_labels and
\* field_labels equal to the registry's, and the caller's warnings.
C21_MetadataStamping ==
    nPc = "returned" =>
        /\ nRet.metadata.generated_at = clock - 1
        /\ nRet.metadata.model_version =
              IF nArg0.metadata.model_version \notin {NONE, ""}
              THEN nArg0.metadata.model_version
              ELSE SchemaVersion
        /\ nRet.metadata.table_labels = TableLabels
        /\ nRet.metadata.field_labels = FieldLabels
        /\ nRet.metadata.warnings = nArg0.metadata.warnings

\* normalize has returned for a caller that supplied a timestamp of its own, an
\* empty model_version, stale labels and a warning
C21_Witness ==
    /\ nPc = "returned"
    /\ nCalls = 1
    /\ nArg0.metadata.generated_at = 7
    /\ nArg0.metadata.model_version = ""
    /\ nArg0.metadata.table_labels = StaleTableLabels
    /\ nRet.metadata.generated_at = 1
    /\ nRet.metadata.model_version = SchemaVersion
    /\ nRet.metadata.warnings = <<"low confidence">>

(***************************************************************************)
(* Value coercion (workbook_export_service.py, _coerce_value).             *)
(* A number is the exact decimal a/b (b a power of ten): float rounding is *)
(* not modelled.  float() is modelled on texts without exponent,           *)
(* underscore, inf or nan; datetime.fromisoformat on the form YYYY-MM-DD.  *)
(***************************************************************************)
PyBool(x) == PyVal("bool", <<>>, IF x THEN 1 ELSE 0, 1, <<>>)
\* a date object, by its day number in the proleptic Gregorian calendar
PyDate(ordinal) == PyVal("date", <<>>, ordinal, 1, <<>>)

Digits == {"0", "1", "2", "3", "4", "5", "6", "7", "8", "9"}

DigitVal(c) ==
    CASE c = "0" -> 0 [] c = "1" -> 1 [] c = "2" -> 2 [] c = "3" -> 3 [] c = "4" -> 4
      [] c = "5" -> 5 [] c = "6" -> 6 [] c = "7" -> 7 [] c = "8" -> 8 [] c = "9" -> 9

AllDigits(s) == \A i \in 1..Len(s) : s[i] \in Digits

RECURSIVE DigitsToInt(_)
DigitsToInt(s) ==
    IF Len(s) = 0 THEN 0
    ELSE 10 * DigitsToInt(SubSeq(s, 1, Len(s) - 1)) + DigitVal(s[Len(s)])

RECURSIVE Pow10(_)
Pow10(n) == IF n = 0 THEN 1 ELSE 10 * Pow10(n - 1)

\* str.replace(ch, "")
RemoveAll(s, ch) == SelectSeq(s, LAMBDA c : c # ch)

\* str.rstrip(ch)
RECURSIVE RStripChar(_, _)
RStripChar(s, ch) ==
    IF Len(s) > 0 /\ s[Len(s)] = ch THEN RStripChar(SubSeq(s, 1, Len(s) - 1), ch) ELSE s

StartsWith(s, ch) == Len(s) > 0 /\ s[1] = ch
EndsWith(s, ch) == Len(s) > 0 /\ s[Len(s)] = ch

\* float(s): surrounding whitespace, an optional sign, digits with at most one '.'
ParseFloat(s) ==
    LET t == Strip(s)
        signed == Len(t) > 0 /\ t[1] \in {"+", "-"}
        body == IF signed THEN Tail(t) ELSE t
        dots == {i \in 1..Len(body) : body[i] = "."}
        dot == IF dots = {} THEN Len(body) + 1 ELSE CHOOSE i \in dots : TRUE
        ip == SubSeq(body, 1, dot - 1)
        fp == SubSeq(body, dot + 1, Len(body))
        ok == /\ Cardinality(dots) <= 1
              /\ AllDigits(ip) /\ AllDigits(fp)
              /\ Len(ip) + Len(fp) >= 1
        mag == IF ok THEN DigitsToInt(ip \o fp) ELSE 0
    IN  [ok |-> ok,
         a |-> IF signed /\ t[1] = "-" THEN 0 - mag ELSE mag,
         b |-> IF ok THEN Pow10(Len(fp)) ELSE 1]

IsLeap(y) == (y % 4 = 0 /\ y % 100 # 0) \/ y % 400 = 0

DaysInMonth(y, m) ==
    IF m = 2 THEN (IF IsLeap(y) THEN 29 ELSE 28)
    ELSE IF m \in {4, 6, 9, 11} THEN 30 ELSE 31

RECURSIVE DaysBeforeMonth(_, _)
DaysBeforeMonth(y, m) == IF m = 1 THEN 0 ELSE DaysBeforeMonth(y, m - 1) + DaysInMonth(y, m - 1)

\* date.toordinal()
Ordinal(y, m, d) ==
    365 * (y - 1) + ((y - 1) \div 4) - ((y - 1) \div 100) + ((y - 1) \div 400)
        + DaysBeforeMonth(y, m) + d

\* datetime.fromisoformat(text), for a date without a time part
ParseIsoDate(text) ==
    LET shaped == /\ Len(text) = 10
                  /\ text[5] = "-" /\ text[8] = "-"
                  /\ AllDigits(SubSeq(text, 1, 4))
                  /\ AllDigits(SubSeq(text, 6, 7))
                  /\ AllDigits(SubSeq(text, 9, 10))
        y == IF shaped THEN DigitsToInt(SubSeq(text, 1, 4)) ELSE 0
        m == IF shaped THEN DigitsToInt(SubSeq(text, 6, 7)) ELSE 0
        d == IF shaped THEN DigitsToInt(SubSeq(text, 9, 10)) ELSE 0
        ok == shaped /\ y >= 1 /\ m \in 1..12 /\ d >= 1 /\ d <= DaysInMonth(y, m)
    IN  [ok |-> ok, ordinal |-> IF ok THEN Ordinal(y, m, d) ELSE 0]

\* openpyxl's to_excel: days since 1899-12-30
ToExcel(ordinal) == PyNum(ordinal - Ordinal(1899, 12, 30), 1)

\* a percent branch that parses the numeric part with its commas left in
CoercePercentKeepsCommas(text) ==
    LET p == ParseFloat(RStripChar(text, "%"))
    IN  IF p.ok THEN PyNum(p.a, p.b * 100) ELSE PyStr(text)

\* lines 147-151: text ends with '%'
CoercePercent(text) ==
    LET p == ParseFloat(RemoveAll(RStripChar(text, "%"), ","))
    IN  IF p.ok THEN PyNum(p.a, p.b * 100) ELSE PyStr(text)

\* a fallback that hands back the cleaned text
CoerceNumericKeepsCleaned(text) ==
    LET stripped == RemoveAll(RemoveAll(text, ","), "$")
        cleaned == IF StartsWith(stripped, "(") /\ EndsWith(stripped, ")")
                   THEN <<"-">> \o SubSeq(stripped, 2, Len(stripped) - 1)
                   ELSE stripped
        p == ParseFloat(cleaned)
        d == ParseIsoDate(text)
    IN  IF p.ok THEN PyNum(p.a, p.b)
        ELSE IF d.ok THEN ToExcel(d.ordinal)
        ELSE PyStr(cleaned)

\* lines 153-165: currency / numeric strings, then ISO dates, then free text
CoerceNumeric(text) ==
    LET stripped == RemoveAll(RemoveAll(text, ","), "$")
        cleaned == IF StartsWith(stripped, "(") /\ EndsWith(stripped, ")")
                   THEN <<"-">> \o SubSeq(stripped, 2, Len(stripped) - 1)
                   ELSE stripped
        p == ParseFloat(cleaned)
        d == ParseIsoDate(text)
    IN  IF p.ok THEN PyNum(p.a, p.b)
        ELSE IF d.ok THEN ToExcel(d.ordinal)
        ELSE PyStr(text)

\* _coerce_value(value)
CoerceValue(value) ==
    CASE value.t = "none" -> PyNone
      [] value.t \in {"num", "bool"} -> value
      [] value.t = "date" -> ToExcel(value.a)
      [] value.t = "str" ->
            LET text == Strip(value.s)
            IN  IF Len(text) = 0 THEN PyNone
                ELSE IF EndsWith(text, "%") THEN CoercePercent(text)
                ELSE CoerceNumeric(text)
      [] OTHER -> value

(***************************************************************************)
(* _coerce_value applied to one value                                      *)
(***************************************************************************)
MaxTextLen == 3     \* longest text enumerated over CoerceAlphabet

CoerceAlphabet == {"1", "5", ".", ",", "%", "-", "$", "(", ")", " ", "x"}

\* texts of the spec's examples and of the cases the branches distinguish
CoerceExamples ==
    { <<"1", "2", ".", "5", "%">>,
      <<"-", "3", "%">>,
      <<"1", ",", "2", "0", "0", "%">>,
      <<" ", "6", "%", " ">>,
      <<"5", "0", "%", "%">>,
      <<"1", "2", " ", "%">>,
      <<"$", "5", "%">>,
      <<"(", "5", ")", "%">>,
      <<"n", "/", "a", "%">>,
      <<"(", "1", ",", "2", "0", "0", ")">>,
      <<"$", "4", ",", "5", "0", "0">>,
      <<"4", "$", "5", "0", "0">>,
      <<"1", ",", "2", "0", "0", ".", "5", "0">>,
      <<"2", "0", "2", "4", "-", "0", "1", "-", "0", "5">>,
      <<"2", "0", "2", "3", "-", "0", "2", "-", "2", "9">>,
      <<"1", "9", "0", "0", "-", "0", "1", "-", "0", "1">>,
      <<"F", "i", "x", "e", "d">>,
      <<"S", "O", "F", "R", " ", "+", " ", "2", "5", "0">>,
      <<"(", "t", "b", "d", ")">>,
      <<"$", "1", "M">> }

CoerceInputs ==
    {PyNone, PyNum(0, 1), PyNum(7, 1), PyNum(-25, 10), PyBool(TRUE), PyBool(FALSE),
     PyDate(Ordinal(2024, 1, 5)), PyList(<<>>), PyDict(<<>>)}
        \cup {PyStr(t) : t \in SeqsUpTo(CoerceAlphabet, MaxTextLen) \cup CoerceExamples}

CoerceInit ==
    /\ cPc = "call"
    /\ cIn \in CoerceInputs
    /\ cOut = PyNone

CoerceIdle ==
    /\ cPc = "off"
    /\ cIn = PyNone
    /\ cOut = PyNone

\* coerced = _coerce_value(raw)
CoerceCall ==
    /\ cPc = "call"
    /\ cOut' = CoerceValue(cIn)
    /\ cPc' = "done"
    /\ UNCHANGED cIn
    /\ UNCHANGED notCoerce

(***************************************************************************)
(* Claims about coercion (checked under SpecCoerce)                        *)
(***************************************************************************)
\* x = a/b as numbers
NumIs(x, a, b) == x.t = "num" /\ x.a * b = a * x.b

\* C10: for a string whose trimmed text ends with '%', coerce returns v/100 when
\* the part before the trailing percent signs, commas removed, parses as the
\* number v (coerce("12.5%") = 0.125, coerce("-3%") = -0.03), and returns the
\* trimmed original string when that part does not parse.
C10_PercentCoercion ==
    (cPc = "done" /\ cIn.t = "str" /\ EndsWith(Strip(cIn.s), "%")) =>
        LET text == Strip(cIn.s)
            v == ParseFloat(RemoveAll(RStripChar(text, "%"), ","))
        IN  /\ v.ok => NumIs(cOut, v.a, v.b * 100)
            /\ ~v.ok => cOut = PyStr(text)
            /\ text = <<"1", "2", ".", "5", "%">> => NumIs(cOut, 125, 1000)
            /\ text = <<"-", "3", "%">> => NumIs(cOut, -3, 100)
            /\ text = <<"1", ",", "2", "0", "0", "%">> => NumIs(cOut, 12, 1)
            /\ text = <<"6", "%">> => NumIs(cOut, 6, 100)
            /\ text \in {<<"%">>, <<"n", "/", "a", "%">>, <<"$", "5", "%">>, <<"(", "5", ")", "%">>}
                  => cOut = PyStr(text)

\* coerce has returned 0.125 for "12.5%"
C10_Witness ==
    /\ cPc = "done"
    /\ cIn = PyStr(<<"1", "2", ".", "5", "%">>)
    /\ NumIs(cOut, 1, 8)

\* the rule as the contract words it: commas removed, then one leading '$' removed,
\* then a fully parenthesized body negated
LeadingDollarCleaned(text) ==
    LET noCommas == RemoveAll(text, ",")
        noDollar == IF StartsWith(noCommas, "$") THEN Tail(noCommas) ELSE noCommas
    IN  IF StartsWith(noDollar, "(") /\ EndsWith(noDollar, ")")
        THEN <<"-">> \o SubSeq(noDollar, 2, Len(noDollar) - 1)
        ELSE noDollar

\* C11: for a non-empty trimmed string that does not end with '%', coerce removes
\* grouping commas and a leading '$', turns a fully parenthesized body "(n)" into
\* "-n" and returns the number when the result parses (coerce("(1,200)") = -1200,
\* coerce("$4,500") = 4500); a string whose only '$' signs are in a non-leading
\* position is not turned into a number.
C11_CurrencyCoercion ==
    (cPc = "done" /\ cIn.t = "str" /\ Len(Strip(cIn.s)) > 0 /\ ~EndsWith(Strip(cIn.s), "%")) =>
        LET text == Strip(cIn.s)
            v == ParseFloat(LeadingDollarCleaned(text))
        IN  /\ v.ok => NumIs(cOut, v.a, v.b)
            /\ text = <<"(", "1", ",", "2", "0", "0", ")">> => NumIs(cOut, -1200, 1)
            /\ text = <<"$", "4", ",", "5", "0", "0">> => NumIs(cOut, 4500, 1)
            /\ ((\E i \in 2..Len(text) : text[i] = "$") /\ text[1] # "$") => cOut.t # "num"

\* the text float() is given for a text that does not end in '%'
CleanedForFloat(text) ==
    LET stripped == SelectSeq(text, LAMBDA c : c \notin {",", "$"})
    IN  IF Len(stripped) > 0 /\ stripped[1] = "(" /\ stripped[Len(stripped)] = ")"
        THEN <<"-">> \o SubSeq(stripped, 2, Len(stripped) - 1)
        ELSE stripped

SCALAR_CELL_MAP ==
    <<
       [table |-> "growth_assumptions", field |-> "market_rent_growth", cell |-> <<"I", 35>>],
       [table |-> "growth_assumptions", field |-> "affordable_rent_growth", cell |-> <<"I", 36>>],
       [table |-> "growth_assumptions", field |-> "other_income_growth", cell |-> <<"I", 37>>],
       [table |-> "growth_assumptions", field |-> "controllables_growth", cell |-> <<"I", 38>>],
       [table |-> "growth_assumptions", field |-> "taxes_growth", cell |-> <<"I", 39>>],
       [table |-> "growth_assumptions", field |-> "insurance_growth", cell |-> <<"I", 40>>],
       [table |-> "project_timeline", field |-> "land_closing_date", cell |-> <<"C", 11>>],
       [table |-> "project_timeline", field |-> "construction_start_month", cell |-> <<"C", 13>>],
       [table |-> "project_timeline", field |-> "first_units_delivered_month", cell |-> <<"C", 16>>],
       [table |-> "revenue_and_leaseup", field |-> "vacancy_pct", cell |-> <<"C", 22>>],
       [table |-> "revenue_and_leaseup", field |-> "loss_to_lease_pct", cell |-> <<"C", 23>>],
       [table |-> "revenue_and_leaseup", field |-> "bad_debt_pct", cell |-> <<"C", 24>>],
       [table |-> "revenue_and_leaseup", field |-> "model_units", cell |-> <<"C", 25>>],
       [table |-> "revenue_and_leaseup", field |-> "concessions_lease_up_months", cell |-> <<"C", 27>>],
       [table |-> "revenue_and_leaseup", field |-> "leased_units_per_month", cell |-> <<"C", 36>>],
       [table |-> "revenue_and_leaseup", field |-> "renewal_probability_pct", cell |-> <<"C", 37>>],
       [table |-> "revenue_and_leaseup", field |-> "lease_term_months", cell |-> <<"C", 38>>],
       [table |-> "operating_expenses", field |-> "payroll", cell |-> <<"C", 48>>],
       [table |-> "operating_expenses", field |-> "utilities", cell |-> <<"C", 49>>],
       [table |-> "operating_expenses", field |-> "turnover", cell |-> <<"C", 50>>],
       [table |-> "operating_expenses", field |-> "contract_services", cell |-> <<"C", 51>>],
       [table |-> "operating_expenses", field |-> "repairs_maintenance", cell |-> <<"C", 52>>],
       [table |-> "operating_expenses", field |-> "leasing_marketing", cell |-> <<"C", 53>>],
       [table |-> "operating_expenses", field |-> "general_admin", cell |-> <<"C", 54>>],
       [table |-> "operating_expenses", field |-> "other_expenses", cell |-> <<"C", 55>>],
       [table |-> "operating_expenses", field |-> "management_fee_pct", cell |-> <<"C", 58>>],
       [table |-> "operating_expenses", field |-> "insurance", cell |-> <<"C", 59>>],
       [table |-> "operating_expenses", field |-> "property_taxes", cell |-> <<"C", 60>>],
       [table |-> "operating_expenses", field |-> "other_taxes_fees", cell |-> <<"C", 61>>],
       [table |-> "operating_expenses", field |-> "replacement_reserves", cell |-> <<"C", 64>>],
       [table |-> "senior_loan_terms", field |-> "loan_to_cost_pct", cell |-> <<"F", 5>>],
       [table |-> "senior_loan_terms", field |-> "interest_type", cell |-> <<"F", 6>>],
       [table |-> "senior_loan_terms", field |-> "curve", cell |-> <<"F", 7>>],
       [table |-> "senior_loan_terms", field |-> "sofr_spread_pct", cell |-> <<"F", 8>>],
       [table |-> "senior_loan_terms", field |-> "sofr_floor_pct", cell |-> <<"F", 9>>],
       [table |-> "senior_loan_terms", field |-> "sofr_cap_pct", cell |-> <<"F", 10>>],
       [table |-> "senior_loan_terms", field |-> "interest_only_period_months", cell |-> <<"F", 11>>],
       [table |-> "senior_loan_terms", field |-> "amortization_schedule_years", cell |-> <<"F", 12>>],
       [table |-> "senior_loan_terms", field |-> "initial_term_months", cell |-> <<"F", 13>>],
       [table |-> "senior_loan_terms", field |-> "origination_fee_pct", cell |-> <<"F", 15>>],
       [table |-> "senior_loan_terms", field |-> "rate_stepdown_dscr_multiple", cell |-> <<"F", 16>>],
       [table |-> "senior_loan_terms", field |-> "rate_stepdown_dy_pct", cell |-> <<"F", 17>>],
       [table |-> "senior_loan_terms", field |-> "stepdown_rate_pct", cell |-> <<"F", 18>>],
       [table |-> "senior_loan_terms", field |-> "exit_fee_pct", cell |-> <<"F", 20>>],
       [table |-> "preferred_equity_terms", field |-> "has_preferred_equity", cell |-> <<"C", 93>>],
       [table |-> "preferred_equity_terms", field |-> "loan_to_cost_pct", cell |-> <<"C", 94>>],
       [table |-> "preferred_equity_terms", field |-> "initial_term_months", cell |-> <<"C", 95>>],
       [table |-> "preferred_equity_terms", field |-> "interest_type", cell |-> <<"C", 96>>],
       [table |-> "preferred_equity_terms", field |-> "sofr_spread_pct", cell |-> <<"C", 97>>],
       [table |-> "preferred_equity_terms", field |-> "sofr_floor_pct", cell |-> <<"C", 98>>],
       [table |-> "preferred_equity_terms", field |-> "total_interest_rate_pct", cell |-> <<"C", 99>>],
       [table |-> "preferred_equity_terms", field |-> "minimum_multiple", cell |-> <<"C", 100>>],
       [table |-> "preferred_equity_terms", field |-> "current_pay_pct", cell |-> <<"C", 101>>],
       [table |-> "preferred_equity_terms", field |-> "accrual_pct", cell |-> <<"C", 102>>],
       [table |-> "exit_assumptions", field |-> "sale_month", cell |-> <<"F", 25>>],
       [table |-> "exit_assumptions", field |-> "noi_type", cell |-> <<"F", 26>>],
       [table |-> "exit_assumptions", field |-> "sale_costs_pct", cell |-> <<"F", 27>>],
       [table |-> "exit_assumptions", field |-> "exit_cap_rate_mf_pct", cell |-> <<"F", 28>>],
       [table |-> "exit_assumptions", field |-> "exit_cap_rate_retail_pct", cell |-> <<"F", 29>>],
       [table |-> "tax_reassessment_at_exit", field |-> "reassess_at_sale", cell |-> <<"E", 33>>],
       [table |-> "tax_reassessment_at_exit", field |-> "property_tax_millage_rate_pct", cell |-> <<"F", 34>>],
       [table |-> "tax_reassessment_at_exit", field |-> "county_assessment_pct", cell |-> <<"F", 35>>],
       [table |-> "tax_reassessment_at_exit", field |-> "market_value_as_pct_of_sale_price", cell |-> <<"F", 36>>],
       [table |-> "sources_and_uses", field |-> "land_acquisition_cost", cell |-> <<"J", 13>>],
       [table |-> "sources_and_uses", field |-> "hard_costs_total", cell |-> <<"J", 14>>],
       [table |-> "sources_and_uses", field |-> "soft_costs_total", cell |-> <<"J", 15>>],
       [table |-> "sources_and_uses", field |-> "financing_costs", cell |-> <<"J", 16>>],
       [table |-> "sources_and_uses", field |-> "operating_reserve", cell |-> <<"J", 17>>],
       [table |-> "sources_and_uses", field |-> "senior_interest_reserve", cell |-> <<"J", 18>>]
    >>

UNIT_MIX_START_ROW == 23
UNIT_MIX_MAX_ROWS == 6
UNIT_MIX_COLUMNS ==
    << [field |-> "unit_type", col |-> "H"],
       [field |-> "num_units", col |-> "I"],
       [field |-> "avg_sf", col |-> "J"],
       [field |-> "rent", col |-> "K"],
       [field |-> "original_label", col |-> "H"] >>

OTHER_INCOME_START_ROW == 70
OTHER_INCOME_MAX_ROWS == 16
OTHER_INCOME_COLUMNS ==
    << [field |-> "item_name", col |-> "B"],
       [field |-> "num_units", col |-> "C"],
       [field |-> "amount_per_month", col |-> "D"] >>

WATERFALL_START_ROW == 45
WATERFALL_MAX_ROWS == 5
WATERFALL_COLUMNS ==
    << [field |-> "tier_name", col |-> "H"],
       [field |-> "lp_split_pct", col |-> "I"],
       [field |-> "gp_split_pct", col |-> "J"],
       [field |-> "hurdle_irr_pct", col |-> "L"],
       [field |-> "moic_multiple", col |-> "M"],
       [field |-> "dollar_amount", col |-> "N"] >>

\* {col for col in column_map.values()} minus skip_columns, in a fixed order
RECURSIVE Targets(_, _, _)
Targets(column_map, skip_columns, n) ==
    IF n = 0 THEN <<>>
    ELSE LET rest == Targets(column_map, skip_columns, n - 1)
             col == column_map[n].col
         IN  IF col \in skip_columns \/ \E i \in 1..Len(rest) : rest[i] = col
             THEN rest ELSE Append(rest, col)

Band(start_row, max_rows, cols) ==
    {<<cols[i], start_row + k>> : i \in 1..Len(cols), k \in 0..(max_rows - 1)}

UnitMixBand ==
    Band(UNIT_MIX_START_ROW, UNIT_MIX_MAX_ROWS, Targets(UNIT_MIX_COLUMNS, {}, Len(UNIT_MIX_COLUMNS)))
OtherIncomeBand ==
    Band(OTHER_INCOME_START_ROW, OTHER_INCOME_MAX_ROWS,
         Targets(OTHER_INCOME_COLUMNS, {}, Len(OTHER_INCOME_COLUMNS)))
WaterfallBand ==
    Band(WATERFALL_START_ROW, WATERFALL_MAX_ROWS, Targets(WATERFALL_COLUMNS, {}, Len(WATERFALL_COLUMNS)))

ScalarCellSet == {SCALAR_CELL_MAP[i].cell : i \in 1..Len(SCALAR_CELL_MAP)}

\* every coordinate the projector can address
SheetCells == ScalarCellSet \cup UnitMixBand \cup OtherIncomeBand \cup WaterfallBand

EmptyCell == [dt |-> "n", v |-> PyNone]

\* _is_formula(cell)
IsFormula(cell) ==
    \/ cell.dt = "f"
    \/ (cell.v.t = "str" /\ StartsWith(Strip(cell.v.s), "="))

\* openpyxl's Cell.value setter: the cell it leaves, or the ValueError for a value
\* it cannot store
BindValue(value) ==
    CASE value.t = "none" -> [ok |-> TRUE, cell |-> [dt |-> "n", v |-> value]]
      [] value.t = "num" -> [ok |-> TRUE, cell |-> [dt |-> "n", v |-> value]]
      [] value.t = "bool" -> [ok |-> TRUE, cell |-> [dt |-> "b", v |-> value]]
      [] value.t = "str" ->
            [ok |-> TRUE,
             cell |-> [dt |-> IF Len(value.s) > 1 /\ StartsWith(value.s, "=") THEN "f" ELSE "s",
                       v |-> value]]
      [] OTHER -> [ok |-> FALSE, cell |-> EmptyCell]

\* the projector's state inside one _apply_* call
ProjState(sheet, app, log, raised) ==
    [ws |-> sheet, applied |-> app, log |-> log, raised |-> raised]

WriteEvent(cell, old, new, rec) ==
    [op |-> "write", cell |-> cell, old |-> old, new |-> new, rec |-> rec]
ClearEvent(cell, old, new) ==
    [op |-> "clear", cell |-> cell, old |-> old, new |-> new, rec |-> 0]

\* a write that does not look at what the cell holds
WriteCellUnguarded(st, table, field, cell, value, raw) ==
    LET old == st.ws[cell]
        b == BindValue(value)
    IN  IF ~b.ok THEN [st EXCEPT !.raised = TRUE]
        ELSE [ws |-> [st.ws EXCEPT ![cell] = b.cell],
              applied |-> Append(st.applied,
                                 [table |-> table, field |-> field, cell |-> cell, value |-> raw]),
              log |-> Append(st.log, WriteEvent(cell, old, b.cell, 1)),
              raised |-> FALSE]

\* cell_obj = ws[cell]; if _is_formula(cell_obj): continue; cell_obj.value = value;
\* applied.append(ExportAppliedField(table, field, cell, value=raw))
WriteCell(st, table, field, cell, value, raw) ==
    LET old == st.ws[cell]
        b == BindValue(value)
    IN  IF IsFormula(old)
        THEN [st EXCEPT !.log = Append(@, WriteEvent(cell, old, old, 0))]
        ELSE IF ~b.ok THEN [st EXCEPT !.raised = TRUE]
        ELSE [ws |-> [st.ws EXCEPT ![cell] = b.cell],
              applied |-> Append(st.applied,
                                 [table |-> table, field |-> field, cell |-> cell, value |-> raw]),
              log |-> Append(st.log, WriteEvent(cell, old, b.cell, 1)),
              raised |-> FALSE]

\* a clear that stops one row short of the band
ClearTableRowsShort(st, start_row, max_rows, cols) ==
    LET band == Band(start_row, max_rows - 1, cols)
        n == Len(cols)
    IN  [st EXCEPT
            !.ws = [c \in DOMAIN st.ws |-> IF c \in band THEN BindValue(PyNone).cell ELSE st.ws[c]],
            !.log = @ \o [i \in 1..((max_rows - 1) * n) |->
                            LET c == <<cols[((i - 1) % n) + 1], start_row + ((i - 1) \div n)>>
                            IN  ClearEvent(c, st.ws[c], BindValue(PyNone).cell)]]

\* _clear_table_rows(ws, start_row, max_rows, column_map, skip_columns), cols being
\* its `targets`
ClearTableRows(st, start_row, max_rows, cols) ==
    LET band == Band(start_row, max_rows, cols)
        n == Len(cols)
    IN  [st EXCEPT
            !.ws = [c \in DOMAIN st.ws |-> IF c \in band THEN BindValue(PyNone).cell ELSE st.ws[c]],
            !.log = @ \o [i \in 1..(max_rows * n) |->
                            LET c == <<cols[((i - 1) % n) + 1], start_row + ((i - 1) \div n)>>
                            IN  ClearEvent(c, st.ws[c], BindValue(PyNone).cell)]]

\* an iteration that empties the cell of a field that has no value
ScalarStepClearsOnNull(st, entry, mapped) ==
    LET table_val == Get(mapped, entry.table)
        raw == Get(table_val, entry.field)
        coerced == CoerceValue(raw)
    IN  IF st.raised THEN st
        ELSE IF table_val.t # "dict" THEN st
        ELSE WriteCell(st, entry.table, entry.field, entry.cell, coerced, raw)

\* one iteration of the loop of _apply_scalar_values
ScalarStep(st, entry, mapped) ==
    LET table_val == Get(mapped, entry.table)
        raw == Get(table_val, entry.field)
        coerced == CoerceValue(raw)
    IN  IF st.raised THEN st
        ELSE IF table_val.t # "dict" THEN st
        ELSE IF coerced = PyNone THEN st
        ELSE WriteCell(st, entry.table, entry.field, entry.cell, coerced, raw)

\* iterations lo..hi of the loop, in order; an exception ends the loop.  The range
\* is halved so that the evaluation stays shallow.
RECURSIVE ScalarLoop(_, _, _, _)
ScalarLoop(st, mapped, lo, hi) ==
    IF lo > hi THEN st
    ELSE IF lo = hi THEN ScalarStep(st, SCALAR_CELL_MAP[lo], mapped)
    ELSE LET mid == (lo + hi) \div 2
             left == ScalarLoop(st, mapped, lo, mid)
         IN  IF left.raised THEN left ELSE ScalarLoop(left, mapped, mid + 1, hi)

\* _apply_scalar_values(ws, mapped, applied)
ApplyScalarValuesOp(st, mapped) == ScalarLoop(st, mapped, 1, Len(SCALAR_CELL_MAP))

\* a slice that stops one row early
FirstRowsShort(rows, max_rows) ==
    SubSeq(rows.kids, 1, IF Len(rows.kids) < max_rows - 1 THEN Len(rows.kids) ELSE max_rows - 1)

\* rows[:max_rows]
FirstRows(rows, max_rows) ==
    SubSeq(rows.kids, 1, IF Len(rows.kids) < max_rows THEN Len(rows.kids) ELSE max_rows)

\* the (row index, column entry) pairs the nested loops visit, in order, for the
\* rows that are dicts
RECURSIVE RowTasks(_, _, _)
RowTasks(rows, columns, n) ==
    IF n = 0 THEN <<>>
    ELSE RowTasks(rows, columns, n - 1) \o
         (IF rows[n].v.t # "dict" THEN <<>>
          ELSE [j \in 1..Len(columns) |->
                   [idx |-> n - 1, row |-> rows[n].v, field |-> columns[j].field, col |-> columns[j].col]])

\* `raw in (None, "")`
NoneOrEmpty(v) == v.t = "none" \/ (v.t = "str" /\ Len(v.s) = 0)

RECURSIVE NatToDigits(_)
NatToDigits(n) ==
    IF n < 10 THEN <<CHOOSE c \in Digits : DigitVal(c) = n>>
    ELSE Append(NatToDigits(n \div 10), CHOOSE c \in Digits : DigitVal(c) = n % 10)

\* str(raw), for a string, a bool or a whole number
PyStrOf(v) ==
    CASE v.t = "str" -> v
      [] v.t = "bool" -> PyStr(IF v.a = 1 THEN <<"T", "r", "u", "e">> ELSE <<"F", "a", "l", "s", "e">>)
      [] OTHER -> IF v.a < 0 THEN PyStr(<<"-">> \o NatToDigits(0 - v.a))
                  ELSE PyStr(NatToDigits(v.a))

\* the body of the field loop of _apply_unit_mix (lines 214-226)
UnitMixStep(st, task) ==
    LET raw == Get(task.row, task.field)
        coerced == CoerceValue(raw)
    IN  IF st.raised THEN st
        ELSE IF ~HasKey(task.row, task.field) THEN st
        ELSE IF coerced = PyNone THEN st
        ELSE WriteCell(st, "unit_mix", task.field, <<task.col, UNIT_MIX_START_ROW + task.idx>>,
                       coerced, raw)

RECURSIVE UnitMixLoop(_, _, _, _)
UnitMixLoop(st, tasks, lo, hi) ==
    IF lo > hi THEN st
    ELSE IF lo = hi THEN UnitMixStep(st, tasks[lo])
    ELSE LET mid == (lo + hi) \div 2
             left == UnitMixLoop(st, tasks, lo, mid)
         IN  IF left.raised THEN left ELSE UnitMixLoop(left, tasks, mid + 1, hi)

\* a unit-mix step that clears the band before it looks at the rows
ApplyUnitMixClearsFirst(st, mapped) ==
    LET rows == Get(mapped, "unit_mix")
        cleared == ClearTableRows(st, UNIT_MIX_START_ROW, UNIT_MIX_MAX_ROWS,
                                  Targets(UNIT_MIX_COLUMNS, {"L"}, Len(UNIT_MIX_COLUMNS)))
    IN  IF rows.t # "list" \/ Len(rows.kids) = 0 THEN cleared
        ELSE LET some == FirstRows(rows, UNIT_MIX_MAX_ROWS)
                 tasks == RowTasks(some, UNIT_MIX_COLUMNS, Len(some))
             IN  UnitMixLoop(cleared, tasks, 1, Len(tasks))

\* _apply_unit_mix(ws, mapped, applied)
ApplyUnitMixOp(st, mapped) ==
    LET rows == Get(mapped, "unit_mix")
    IN  IF rows.t # "list" \/ Len(rows.kids) = 0 THEN st
        ELSE LET cleared == ClearTableRows(st, UNIT_MIX_START_ROW, UNIT_MIX_MAX_ROWS,
                                Targets(UNIT_MIX_COLUMNS, {"L"}, Len(UNIT_MIX_COLUMNS)))
                 some == FirstRows(rows, UNIT_MIX_MAX_ROWS)
                 tasks == RowTasks(some, UNIT_MIX_COLUMNS, Len(some))
             IN  UnitMixLoop(cleared, tasks, 1, Len(tasks))

\* the row body of _apply_other_income for one column (lines 238-258): item_name
\* is written as str(item_name), the other columns through _coerce_value
OtherIncomeStep(st, task) ==
    LET raw == Get(task.row, task.field)
        coerced == CoerceValue(raw)
        cell == <<task.col, OTHER_INCOME_START_ROW + task.idx>>
    IN  IF st.raised THEN st
        ELSE IF task.field = "item_name"
        THEN IF NoneOrEmpty(raw) THEN st
             ELSE WriteCell(st, "other_income", "item_name", cell, PyStrOf(raw), raw)
        ELSE IF coerced = PyNone THEN st
        ELSE WriteCell(st, "other_income", task.field, cell, coerced, raw)

RECURSIVE OtherIncomeLoop(_, _, _, _)
OtherIncomeLoop(st, tasks, lo, hi) ==
    IF lo > hi THEN st
    ELSE IF lo = hi THEN OtherIncomeStep(st, tasks[lo])
    ELSE LET mid == (lo + hi) \div 2
             left == OtherIncomeLoop(st, tasks, lo, mid)
         IN  IF left.raised THEN left ELSE OtherIncomeLoop(left, tasks, mid + 1, hi)

\* _apply_other_income(ws, mapped, applied)
ApplyOtherIncomeOp(st, mapped) ==
    LET rows == Get(mapped, "other_income")
    IN  IF rows.t # "list" \/ Len(rows.kids) = 0 THEN st
        ELSE LET cleared == ClearTableRows(st, OTHER_INCOME_START_ROW, OTHER_INCOME_MAX_ROWS,
                                Targets(OTHER_INCOME_COLUMNS, {}, Len(OTHER_INCOME_COLUMNS)))
                 some == FirstRows(rows, OTHER_INCOME_MAX_ROWS)
                 tasks == RowTasks(some, OTHER_INCOME_COLUMNS, Len(some))
             IN  OtherIncomeLoop(cleared, tasks, 1, Len(tasks))

\* the field loop body of _apply_waterfall (lines 278-300); fields_to_write lists
\* the keys of WATERFALL_COLUMNS in their order
WaterfallStep(st, task) ==
    LET raw == Get(task.row, task.field)
        coerced == CoerceValue(raw)
        cell == <<task.col, WATERFALL_START_ROW + task.idx>>
    IN  IF st.raised THEN st
        ELSE IF task.field = "tier_name"
        THEN IF NoneOrEmpty(raw) THEN st
             ELSE WriteCell(st, "waterfall", "tier_name", cell, PyStrOf(raw), raw)
        ELSE IF coerced = PyNone THEN st
        ELSE WriteCell(st, "waterfall", task.field, cell, coerced, raw)

RECURSIVE WaterfallLoop(_, _, _, _)
WaterfallLoop(st, tasks, lo, hi) ==
    IF lo > hi THEN st
    ELSE IF lo = hi THEN WaterfallStep(st, tasks[lo])
    ELSE LET mid == (lo + hi) \div 2
             left == WaterfallLoop(st, tasks, lo, mid)
         IN  IF left.raised THEN left ELSE WaterfallLoop(left, tasks, mid + 1, hi)

\* _apply_waterfall(ws, mapped, applied)
ApplyWaterfallOp(st, mapped) ==
    LET rows == Get(mapped, "waterfall")
    IN  IF rows.t # "list" \/ Len(rows.kids) = 0 THEN st
        ELSE LET cleared == ClearTableRows(st, WATERFALL_START_ROW, WATERFALL_MAX_ROWS,
                                Targets(WATERFALL_COLUMNS, {}, Len(WATERFALL_COLUMNS)))
                 some == FirstRows(rows, WATERFALL_MAX_ROWS)
                 tasks == RowTasks(some, WATERFALL_COLUMNS, Len(some))
             IN  WaterfallLoop(cleared, tasks, 1, Len(tasks))

(***************************************************************************)
(* export_mapping: one export from the template, then a second one either  *)
(* from the template again (export_mapping called again) or onto the sheet *)
(* the first one filled (the _apply_* calls made again on the same ws).    *)
(***************************************************************************)
ExtraRows == 1      \* rows enumerated beyond a table's max_rows

Txt(chars) == PyStr(chars)

\* what a template cell can hold: nothing, a constant, a formula as openpyxl
\* loads it, a string whose trimmed text starts with "="
PlainCell == [dt |-> "s", v |-> Txt(<<"o", "l", "d">>)]
FormulaCell == [dt |-> "f", v |-> Txt(<<"=", "A", "1">>)]
FormulaTextCell == [dt |-> "s", v |-> Txt(<<" ", "=", "B", "2">>)]

\* the cells the enumerated templates populate: a scalar cell and, per table, a
\* cell of the first or of the last band row
Probes ==
    { [cell |-> <<"I", 35>>, content |-> PlainCell],
      [cell |-> <<"I", 35>>, content |-> FormulaCell],
      [cell |-> <<"I", 35>>, content |-> FormulaTextCell],
      [cell |-> <<"I", 36>>, content |-> PlainCell],
      [cell |-> <<"I", 37>>, content |-> PlainCell],
      [cell |-> <<"H", 23>>, content |-> FormulaCell],
      [cell |-> <<"H", 23>>, content |-> FormulaTextCell],
      [cell |-> <<"K", 28>>, content |-> PlainCell],
      [cell |-> <<"D", 85>>, content |-> FormulaCell],
      [cell |-> <<"B", 70>>, content |-> PlainCell],
      [cell |-> <<"N", 49>>, content |-> FormulaCell] }

BlankSheet == [c \in SheetCells |-> EmptyCell]

Templates == {BlankSheet} \cup {[BlankSheet EXCEPT ![p.cell] = p.content] : p \in Probes}

\* row idx of a table, its shape going round with idx: a full row, a row whose
\* first column holds text starting with "=", something that is not a dict
UnitMixRowAt(idx) ==
    CASE idx % 3 = 0 ->
            PyDict(<< Item("unit_type", Txt(<<"A">>)), Item("num_units", PyNum(10, 1)),
                      Item("avg_sf", Txt(<<"1", ",", "2", "0", "0">>)),
                      Item("rent", Txt(<<"$", "9", "5", "0">>)),
                      Item("original_label", Txt(<<"A", "1">>)) >>)
      [] idx % 3 = 1 ->
            PyDict(<< Item("unit_type", Txt(<<"=", "1">>)), Item("num_units", PyNone),
                      Item("rent", Txt(<<" ">>)),
                      Item("original_label", Txt(<<"x">>)) >>)
      [] OTHER -> Txt(<<"r", "o", "w">>)

OtherIncomeRowAt(idx) ==
    CASE idx % 3 = 0 ->
            PyDict(<< Item("item_name", Txt(<<"P">>)), Item("num_units", PyNum(2, 1)),
                      Item("amount_per_month", Txt(<<"5", "%">>)) >>)
      [] idx % 3 = 1 ->
            PyDict(<< Item("item_name", PyNum(7, 1)), Item("num_units", Txt(<<>>)) >>)
      [] OTHER -> PyNone

WaterfallRowAt(idx) ==
    CASE idx % 3 = 0 ->
            PyDict(<< Item("tier_name", Txt(<<"T">>)), Item("lp_split_pct", Txt(<<"8", "0", "%">>)),
                      Item("gp_split_pct", PyNum(20, 1)), Item("hurdle_irr_pct", Txt(<<"8", "%">>)),
                      Item("moic_multiple", Txt(<<"2">>)),
                      Item("dollar_amount", Txt(<<"(", "5", ")">>)) >>)
      [] idx % 3 = 1 ->
            PyDict(<< Item("tier_name", Txt(<<>>)), Item("lp_split_pct", PyNone),
                      Item("dollar_amount", PyBool(TRUE)) >>)
      [] OTHER -> PyList(<<>>)

TableNames == {"unit_mix", "other_income", "waterfall"}

MaxRowsOf(table) ==
    CASE table = "unit_mix" -> UNIT_MIX_MAX_ROWS
      [] table = "other_income" -> OTHER_INCOME_MAX_ROWS
      [] OTHER -> WATERFALL_MAX_ROWS

StartRowOf(table) ==
    CASE table = "unit_mix" -> UNIT_MIX_START_ROW
      [] table = "other_income" -> OTHER_INCOME_START_ROW
      [] OTHER -> WATERFALL_START_ROW

BandOf(table) ==
    CASE table = "unit_mix" -> UnitMixBand
      [] table = "other_income" -> OtherIncomeBand
      [] OTHER -> WaterfallBand

\* the first n rows of a table, as list items
TableRows(table, n) ==
    [i \in 1..n |->
        Item("", CASE table = "unit_mix" -> UnitMixRowAt(i - 1)
                   [] table = "other_income" -> OtherIncomeRowAt(i - 1)
                   [] OTHER -> WaterfallRowAt(i - 1))]

\* scalar sections of an enumerated document
NoScalars == <<>>
SomeScalars ==
    << Item("growth_assumptions",
            PyDict(<< Item("market_rent_growth", Txt(<<"5", "%">>)),
                      Item("affordable_rent_growth", PyNone),
                      Item("other_income_growth", Txt(<<" ">>)),
                      Item("taxes_growth", PyNum(3, 100)) >>)),
       Item("exit_assumptions", Txt(<<"n", "/", "a">>)) >>
\* a scalar whose value is a list, which no cell can store
ListScalar ==
    << Item("growth_assumptions",
            PyDict(<< Item("market_rent_growth", Txt(<<"5", "%">>)),
                      Item("taxes_growth", PyList(<<>>)) >>)) >>

\* mapping.mapped with the given scalar sections and n rows of one table
Doc(scalars, table, n) == PyDict(scalars \o <<Item(table, PyList(TableRows(table, n)))>>)

\* the row counts enumerated for a table: few rows, and the counts around max_rows
RowCounts(max_rows) == {0, 1, 2} \cup ((max_rows - 1)..(max_rows + ExtraRows))

\* the documents the first export is run on
MappedDocs ==
    { Doc(NoScalars, "unit_mix", n) : n \in RowCounts(UNIT_MIX_MAX_ROWS) }
    \cup { Doc(NoScalars, "other_income", n) : n \in RowCounts(OTHER_INCOME_MAX_ROWS) }
    \cup { Doc(NoScalars, "waterfall", n) : n \in RowCounts(WATERFALL_MAX_ROWS) }
    \cup { Doc(SomeScalars, "unit_mix", 2),
           PyDict(ListScalar),
           PyDict(<<Item("unit_mix", PyDict(<<>>))>>),
           PyDict(<< Item("unit_mix", PyList(TableRows("unit_mix", 1))),
                     Item("other_income", PyList(TableRows("other_income", 1))),
                     Item("waterfall", PyList(TableRows("waterfall", 1))) >>) }

\* rows[:m] of a list-valued item, the item itself otherwise
CutItem(item, m) ==
    IF item.v.t = "list" /\ Len(item.v.kids) > m
    THEN Item(item.k, PyList(SubSeq(item.v.kids, 1, m)))
    ELSE item

\* the document with every table cut to at most m rows
Shrunk(doc, m) == PyDict([i \in 1..Len(doc.kids) |-> CutItem(doc.kids[i], m)])

\* the number of rows of the longest table of the document
RECURSIVE MaxTableLen(_, _)
MaxTableLen(doc, n) ==
    IF n = 0 THEN 0
    ELSE LET rest == MaxTableLen(doc, n - 1)
             here == IF doc.kids[n].v.t = "list" THEN Len(doc.kids[n].v.kids) ELSE 0
         IN  IF here > rest THEN here ELSE rest

\* the row counts a document of n rows is cut to for the second export
ShrinkCounts(n) == {m \in {0, 1, 2, n - 1, n} : 0 <= m /\ m <= n}

NoDoc == PyDict(<<>>)

ExportInit ==
    /\ xPc = "start"
    /\ xPhase = "first"
    /\ xTemplate \in Templates
    /\ xDoc \in MappedDocs
    /\ xFirst = xDoc
    /\ ws = BlankSheet
    /\ applied = <<>>
    /\ wlog = <<>>
    /\ xSheet1 = BlankSheet

ExportIdle ==
    /\ xPc = "off"
    /\ xPhase = "first"
    /\ xTemplate = BlankSheet
    /\ xDoc = NoDoc
    /\ xFirst = NoDoc
    /\ ws = BlankSheet
    /\ applied = <<>>
    /\ wlog = <<>>
    /\ xSheet1 = BlankSheet

\* the step that follows an _apply_* call: the next one, or the exception leaving
\* export_mapping
AfterApply(st, next) ==
    /\ ws' = st.ws
    /\ applied' = st.applied
    /\ wlog' = st.log
    /\ xPc' = IF st.raised THEN "raised" ELSE next
    /\ UNCHANGED <<xPhase, xTemplate, xDoc, xFirst, xSheet1>>
    /\ UNCHANGED notExport

\* shutil.copy(TEMPLATE_PATH, tmp_path); ws = load_workbook(tmp_path)[TARGET_SHEET_NAME];
\* applied_fields = []
StartExport ==
    /\ xPc = "start"
    /\ ws' = xTemplate
    /\ applied' = <<>>
    /\ wlog' = <<>>
    /\ xPc' = "scalars"
    /\ UNCHANGED <<xPhase, xTemplate, xDoc, xFirst, xSheet1>>
    /\ UNCHANGED notExport

ApplyScalarValues ==
    /\ xPc = "scalars"
    /\ AfterApply(ApplyScalarValuesOp(ProjState(ws, applied, wlog, FALSE), xDoc), "unit_mix")

ApplyUnitMix ==
    /\ xPc = "unit_mix"
    /\ AfterApply(ApplyUnitMixOp(ProjState(ws, applied, wlog, FALSE), xDoc), "other_income")

ApplyOtherIncome ==
    /\ xPc = "other_income"
    /\ AfterApply(ApplyOtherIncomeOp(ProjState(ws, applied, wlog, FALSE), xDoc), "waterfall")

ApplyWaterfall ==
    /\ xPc = "waterfall"
    /\ AfterApply(ApplyWaterfallOp(ProjState(ws, applied, wlog, FALSE), xDoc), "save")

\* wb.save(tmp_path); return ExportResponse(download_url, applied_fields)
SaveAndReturn ==
    /\ xPc = "save"
    /\ xPc' = "done"
    /\ xSheet1' = IF xPhase = "first" THEN ws ELSE xSheet1
    /\ UNCHANGED <<xPhase, xTemplate, xDoc, xFirst, ws, applied, wlog>>
    /\ UNCHANGED notExport

\* export_mapping called again for the session, its tables now at most m rows long
ExportAgain ==
    /\ xPc = "done"
    /\ xPhase = "first"
    /\ \E m \in ShrinkCounts(MaxTableLen(xDoc, Len(xDoc.kids))) :
          xDoc' = Shrunk(xDoc, m)
    /\ xPhase' = "second"
    /\ xPc' = "start"
    /\ UNCHANGED <<xTemplate, xFirst, ws, applied, wlog, xSheet1>>
    /\ UNCHANGED notExport

\* the four _apply_* calls made again on the sheet the first export filled, the
\* tables now at most m rows long
ProjectAgain ==
    /\ xPc = "done"
    /\ xPhase = "first"
    /\ \E m \in ShrinkCounts(MaxTableLen(xDoc, Len(xDoc.kids))) :
          xDoc' = Shrunk(xDoc, m)
    /\ xPhase' = "resheet"
    /\ xPc' = "scalars"
    /\ applied' = <<>>
    /\ wlog' = <<>>
    /\ UNCHANGED <<xTemplate, xFirst, ws, xSheet1>>
    /\ UNCHANGED notExport

ExportNext ==
    \/ StartExport
    \/ ApplyScalarValues
    \/ ApplyUnitMix
    \/ ApplyOtherIncome
    \/ ApplyWaterfall
    \/ SaveAndReturn
    \/ ExportAgain
    \/ ProjectAgain

(***************************************************************************)
(* Claims about the projector (checked under SpecExport)                   *)
(***************************************************************************)
WriteEvents == {i \in 1..Len(wlog) : wlog[i].op = "write"}
ClearEvents == {i \in 1..Len(wlog) : wlog[i].op = "clear"}

AppliedCells == {applied[i].cell : i \in 1..Len(applied)}

\* C5: a write whose destination cell holds a formula at that moment (data_type
\* 'f', or a string whose trimmed text starts with '=') leaves the cell as it was
\* and appends no applied record, for scalar fields and table-row fields alike; a
\* scalar cell that is a formula in the template is the template's formula after
\* _apply_scalar_values and has no applied record.
C5_FormulaProtection ==
    /\ \A i \in WriteEvents :
          IsFormula(wlog[i].old) => (wlog[i].new = wlog[i].old /\ wlog[i].rec = 0)
    /\ (xPc = "unit_mix" /\ xPhase \in {"first", "second"}) =>
          \A c \in ScalarCellSet :
              IsFormula(xTemplate[c]) => (ws[c] = xTemplate[c] /\ c \notin AppliedCells)

\* one export met a formula in a scalar cell and a formula in a table cell
C5_Witness ==
    /\ xPc = "done"
    /\ \E i \in WriteEvents :
          wlog[i].cell \in ScalarCellSet /\ IsFormula(wlog[i].old) /\ wlog[i].old = ws[wlog[i].cell]
    /\ \E i \in WriteEvents :
          wlog[i].cell \in UnitMixBand /\ IsFormula(wlog[i].old) /\ wlog[i].old = ws[wlog[i].cell]

\* C6: clearing a table band leaves every formula cell of the band as it was; only
\* cells that hold no formula are emptied.
C6_ClearKeepsFormulas ==
    \A i \in ClearEvents :
        IF IsFormula(wlog[i].old) THEN wlog[i].new = wlog[i].old ELSE wlog[i].new = EmptyCell

\* the rows of a table in a document, none when the value is not a list
RowsIn(doc, table) == IF Get(doc, table).t = "list" THEN Len(Get(doc, table).kids) ELSE 0

\* the cells of a table's band in band rows m+1..n
BandRows(table, m, n) ==
    {c \in BandOf(table) : StartRowOf(table) + m <= c[2] /\ c[2] < StartRowOf(table) + n}

\* C7: after a table was exported with n rows and then exported again with m rows,
\* 1 <= m < n <= max_rows, onto the same sheet or onto a new copy of the template,
\* every cell of band rows m+1..n that holds no formula is empty.
C7_ShrinkingReexport ==
    \A t \in TableNames :
        LET n == RowsIn(xFirst, t)
            m == RowsIn(xDoc, t)
        IN  (xPc = "done" /\ xPhase # "first" /\ 1 <= m /\ m < n /\ n <= MaxRowsOf(t)) =>
                \A c \in BandRows(t, m, n) : ~IsFormula(ws[c]) => ws[c] = EmptyCell

\* the second run went onto the sheet of the first, which had filled the last row
\* of the band
C7_Witness ==
    /\ xPc = "done"
    /\ xPhase = "resheet"
    /\ RowsIn(xFirst, "other_income") = OTHER_INCOME_MAX_ROWS
    /\ RowsIn(xDoc, "other_income") = 2
    /\ \E c \in BandRows("other_income", OTHER_INCOME_MAX_ROWS - 1, OTHER_INCOME_MAX_ROWS) :
          xSheet1[c] # EmptyCell /\ ws[c] = EmptyCell

\* the positions after _apply_scalar_values has run in the export in progress
AfterScalars == {"unit_mix", "other_income", "waterfall", "save", "done", "raised"}

\* the sheet the _apply_* calls of the export in progress started from
SheetBefore == IF xPhase = "resheet" THEN xSheet1 ELSE xTemplate

\* C22: coerce returns null for null and for a string that is empty after trimming;
\* and for every scalar field whose value is null or such a string the projector
\* leaves the destination cell as it was before the call, touches it in no way,
\* and appends no applied record.
C22_NullLeavesCellUntouched ==
    /\ \A v \in {PyNone, Txt(<<>>), Txt(<<" ">>), Txt(<<"\t", " ", "\n">>)} : CoerceValue(v) = PyNone
    /\ xPc \in AfterScalars =>
          \A k \in 1..Len(SCALAR_CELL_MAP) :
              LET entry == SCALAR_CELL_MAP[k]
                  table_val == Get(xDoc, entry.table)
              IN  (table_val.t = "dict" /\ NullOrBlankText(Get(table_val, entry.field))) =>
                      /\ ws[entry.cell] = SheetBefore[entry.cell]
                      /\ \A i \in 1..Len(wlog) : wlog[i].cell # entry.cell
                      /\ entry.cell \notin AppliedCells

\* an export has finished on a template that holds a constant in the cell of a
\* field whose value is null, next to a field that was written
C22_Witness ==
    /\ xPc = "done"
    /\ xPhase = "first"
    /\ Get(xDoc, "growth_assumptions").t = "dict"
    /\ HasKey(Get(xDoc, "growth_assumptions"), "affordable_rent_growth")
    /\ Get(Get(xDoc, "growth_assumptions"), "affordable_rent_growth") = PyNone
    /\ xTemplate[<<"I", 36>>] = PlainCell
    /\ ws[<<"I", 36>>] = PlainCell
    /\ <<"I", 35>> \in AppliedCells

\* the positions after the four _apply_* calls of the export in progress
AfterTables == {"save", "done"}

\* C23: when a table section's value is an empty array, null, absent or not an
\* array, the projector neither clears nor writes any cell of the section's row
\* band: every cell of the band holds what it held before the call.
C23_EmptyTableKeepsBand ==
    xPc \in AfterTables =>
        \A t \in TableNames :
            (Get(xDoc, t).t # "list" \/ Len(Get(xDoc, t).kids) = 0) =>
                \A c \in BandOf(t) :
                    /\ ws[c] = SheetBefore[c]
                    /\ \A i \in 1..Len(wlog) : wlog[i].cell # c

\* the _apply_* calls have run again, with an empty unit_mix array, on a sheet whose
\* unit-mix band an earlier export had filled, and the band still holds the rows
C23_Witness ==
    /\ xPc = "done"
    /\ xPhase = "resheet"
    /\ RowsIn(xFirst, "unit_mix") = 2
    /\ Get(xDoc, "unit_mix") = PyList(<<>>)
    /\ xSheet1[<<"I", 23>>] # EmptyCell
    /\ ws[<<"I", 23>>] = xSheet1[<<"I", 23>>]
    /\ ws[<<"I", 35>>] # EmptyCell

\* the sheet columns a table's fields are mapped to
ColumnsOf(table) ==
    LET cols == CASE table = "unit_mix" -> UNIT_MIX_COLUMNS
                  [] table = "other_income" -> OTHER_INCOME_COLUMNS
                  [] OTHER -> WATERFALL_COLUMNS
    IN  {cols[j].col : j \in 1..Len(cols)}

\* the applied records of a table
RecordsOf(table) == {i \in 1..Len(applied) : applied[i].table = table}

\* C24: for every table and every list of input rows, row k (counted from 0) is
\* written to sheet row start_row + k when k < max_rows and nowhere when
\* k >= max_rows; every cell written for the table lies in rows start_row ..
\* start_row + max_rows - 1 and in one of the table's mapped columns; and a list
\* longer than max_rows raises no error.
C24_RowCapAndSuccessiveRows ==
    \A t \in TableNames :
        /\ RowsIn(xDoc, t) > MaxRowsOf(t) => xPc # "raised"
        /\ (xPc \in AfterTables /\ RowsIn(xDoc, t) > 0) =>
              LET rows == Get(xDoc, t).kids
              IN  /\ \A i \in RecordsOf(t) :
                        LET k == applied[i].cell[2] - StartRowOf(t)
                        IN  /\ 0 <= k /\ k < MaxRowsOf(t)
                            /\ applied[i].cell[1] \in ColumnsOf(t)
                            /\ k < Len(rows)
                            /\ rows[k + 1].v.t = "dict"
                            /\ applied[i].value = Get(rows[k + 1].v, applied[i].field)
                            /\ ws[applied[i].cell] # EmptyCell
                  /\ \A k \in 0..(Len(rows) - 1) :
                        (k < MaxRowsOf(t) /\ rows[k + 1].v.t = "dict") =>
                            \E i \in RecordsOf(t) : applied[i].cell[2] = StartRowOf(t) + k

\* an export of more other-income rows than the band has has finished: the last
\* band row holds the row of that index and the rows beyond it went nowhere
C24_Witness ==
    /\ xPc = "done"
    /\ xPhase = "first"
    /\ RowsIn(xDoc, "other_income") = OTHER_INCOME_MAX_ROWS + 1
    /\ \E i \in RecordsOf("other_income") :
          applied[i].cell = <<"B", OTHER_INCOME_START_ROW + OTHER_INCOME_MAX_ROWS - 1>>
    /\ ws[<<"C", OTHER_INCOME_START_ROW>>] # EmptyCell

\* the writes the export in progress performed, in order
PerformedWrites == SelectSeq(wlog, LAMBDA e : e.op = "write" /\ e.rec = 1)

\* the place of a record's section in the projector's order of work
StageOf(table) ==
    CASE table = "unit_mix" -> 2
      [] table = "other_income" -> 3
      [] table = "waterfall" -> 4
      [] OTHER -> 1

\* C25: the applied list has exactly one record per cell write performed, in the
\* order of the writes (scalars, then unit_mix, other_income, waterfall), and the
\* value of each record is the value that was put into the cell (the coerced
\* value, not the raw input); a skipped field has no record.
C25_AppliedFieldsRecord ==
    /\ Len(applied) = Len(PerformedWrites)
    /\ \A i \in 1..Len(applied) :
          /\ i <= Len(PerformedWrites)
          /\ applied[i].cell = PerformedWrites[i].cell
          /\ applied[i].value = PerformedWrites[i].new.v
    /\ \A i, j \in 1..Len(applied) :
          i < j => StageOf(applied[i].table) <= StageOf(applied[j].table)

\* C26: with the template and the target sheet there, a failure while writing one
\* cell makes the projector skip that cell only: the export does not raise, and
\* every other scalar field that has a value and whose cell holds no formula is
\* written.
C26_PerCellFailureSkipped ==
    /\ xPc # "raised"
    /\ xPc \in AfterScalars =>
          \A k \in 1..Len(SCALAR_CELL_MAP) :
              LET entry == SCALAR_CELL_MAP[k]
                  table_val == Get(xDoc, entry.table)
                  coerced == CoerceValue(Get(table_val, entry.field))
              IN  (/\ table_val.t = "dict"
                   /\ coerced # PyNone
                   /\ BindValue(coerced).ok
                   /\ ~IsFormula(SheetBefore[entry.cell])) =>
                      entry.cell \in AppliedCells

\* the fields of a column map that share their column with another field
SharedColumn(column_map) ==
    {column_map[i].field : i \in {i \in 1..Len(column_map) :
        \E j \in 1..Len(column_map) : j # i /\ column_map[j].col = column_map[i].col}}

\* C28: within one run of the projector no cell receives two writes and no cell
\* appears in two applied records; the scalar map's cells are pairwise distinct
\* and outside every table band, and no two fields of a table share a column.
C28_CellWrittenAtMostOnce ==
    /\ \A i, j \in 1..Len(PerformedWrites) :
          PerformedWrites[i].cell = PerformedWrites[j].cell => i = j
    /\ \A i, j \in 1..Len(applied) : applied[i].cell = applied[j].cell => i = j
    /\ \A i, j \in 1..Len(SCALAR_CELL_MAP) :
          SCALAR_CELL_MAP[i].cell = SCALAR_CELL_MAP[j].cell => i = j
    /\ ScalarCellSet \cap (UnitMixBand \cup OtherIncomeBand \cup WaterfallBand) = {}
    /\ SharedColumn(UNIT_MIX_COLUMNS) = {}
    /\ SharedColumn(OTHER_INCOME_COLUMNS) = {}
    /\ SharedColumn(WATERFALL_COLUMNS) = {}

(***************************************************************************)
(* json.loads, as the two _json_safe functions use it.  A text is the      *)
(* sequence of its characters; a character outside ASCII stays written as  *)
(* its \uXXXX escape.                                                      *)
(***************************************************************************)
ScanFail == [ok |-> FALSE, v |-> PyNone, pos |-> 0]
ScanOk(v, pos) == [ok |-> TRUE, v |-> v, pos |-> pos]

\* json.decoder.WHITESPACE.match(s, i).end()
RECURSIVE SkipWs(_, _)
SkipWs(s, i) == IF i <= Len(s) /\ s[i] \in {" ", "\t", "\n", "\r"} THEN SkipWs(s, i + 1) ELSE i

\* s.startswith(lit, i)
HasAt(s, i, lit) == i + Len(lit) - 1 <= Len(s) /\ SubSeq(s, i, i + Len(lit) - 1) = lit

HexDigits == Digits \cup {"a", "b", "c", "d", "e", "f", "A", "B", "C", "D", "E", "F"}

\* the backspace character, which no string literal here can hold
Backspace == "\\b"

\* json.decoder.BACKSLASH
Unescape(c) ==
    CASE c = "b" -> Backspace [] c = "f" -> "\f" [] c = "n" -> "\n" [] c = "r" -> "\r"
      [] c = "t" -> "\t" [] OTHER -> c

\* py_scanstring(s, i) in strict mode, i the position after the opening quote
RECURSIVE ScanString(_, _, _)
ScanString(s, i, acc) ==
    IF i > Len(s) THEN ScanFail
    ELSE IF s[i] = "\"" THEN ScanOk(PyStr(acc), i + 1)
    ELSE IF s[i] = "\\"
    THEN IF i + 1 > Len(s) THEN ScanFail
         ELSE IF s[i + 1] \in {"\"", "\\", "/", "b", "f", "n", "r", "t"}
         THEN ScanString(s, i + 2, Append(acc, Unescape(s[i + 1])))
         ELSE IF s[i + 1] = "u" /\ i + 5 <= Len(s) /\ \A k \in 2..5 : s[i + k] \in HexDigits
         THEN ScanString(s, i + 6, acc \o SubSeq(s, i, i + 5))
         ELSE ScanFail
    ELSE IF s[i] \in {"\t", "\n", "\r", "\f", Backspace} THEN ScanFail
    ELSE ScanString(s, i + 1, Append(acc, s[i]))

\* the end of the run of digits that starts at i
RECURSIVE DigitsEnd(_, _)
DigitsEnd(s, i) == IF i <= Len(s) /\ s[i] \in Digits THEN DigitsEnd(s, i + 1) ELSE i

\* the end of (?:0|[1-9]\d*) at i0; i0 when there is no digit
IntEnd(s, i0) == IF i0 <= Len(s) /\ s[i0] = "0" THEN i0 + 1 ELSE DigitsEnd(s, i0)

\* the end of (\.\d+)? at p
FracEnd(s, p) ==
    IF p <= Len(s) /\ s[p] = "." /\ DigitsEnd(s, p + 1) > p + 1 THEN DigitsEnd(s, p + 1) ELSE p

\* where the digits of ([eE][-+]?\d+) at p would start
ExpDigits(s, p) == IF p + 1 <= Len(s) /\ s[p + 1] \in {"+", "-"} THEN p + 2 ELSE p + 1

\* the end of ([eE][-+]?\d+)? at p
ExpEnd(s, p) ==
    IF p <= Len(s) /\ s[p] \in {"e", "E"} /\ DigitsEnd(s, ExpDigits(s, p)) > ExpDigits(s, p)
    THEN DigitsEnd(s, ExpDigits(s, p)) ELSE p

\* int(integer) or float(integer + frac + exp) of the number matched at i..xEnd-1,
\* its integer part ending before iEnd and its fraction before fEnd
NumberValue(s, i, iEnd, fEnd, xEnd) ==
    LET neg == s[i] = "-"
        digits == SubSeq(s, IF neg THEN i + 1 ELSE i, iEnd - 1) \o SubSeq(s, iEnd + 1, fEnd - 1)
        places == IF fEnd > iEnd THEN fEnd - iEnd - 1 ELSE 0
        exp == IF xEnd > fEnd THEN DigitsToInt(SubSeq(s, ExpDigits(s, fEnd), xEnd - 1)) ELSE 0
        expNeg == xEnd > fEnd /\ s[fEnd + 1] = "-"
    IN  PyNum((IF neg THEN 0 - DigitsToInt(digits) ELSE DigitsToInt(digits))
                  * (IF expNeg THEN 1 ELSE Pow10(exp)),
              Pow10(places) * (IF expNeg THEN Pow10(exp) ELSE 1))

\* json.scanner.NUMBER_RE matched at i: (-?(?:0|[1-9]\d*))(\.\d+)?([eE][-+]?\d+)?
ScanNumber(s, i) ==
    LET matched(i0, iEnd, fEnd, xEnd) ==
            IF iEnd = i0 THEN ScanFail ELSE ScanOk(NumberValue(s, i, iEnd, fEnd, xEnd), xEnd)
        afterFrac(i0, iEnd, fEnd) == matched(i0, iEnd, fEnd, ExpEnd(s, fEnd))
        afterInt(i0, iEnd) == afterFrac(i0, iEnd, FracEnd(s, iEnd))
        afterSign(i0) == afterInt(i0, IntEnd(s, i0))
    IN  afterSign(IF i <= Len(s) /\ s[i] = "-" THEN i + 1 ELSE i)

\* float('nan'), float('inf'), float('-inf')
PyFloatConst(name) == PyVal("float", name, 0, 1, <<>>)

\* dict[key] = value: the value replaced where the key is, appended otherwise
DictSet(kids, key, value) ==
    IF \E i \in 1..Len(kids) : kids[i].k = key
    THEN [i \in 1..Len(kids) |-> IF kids[i].k = key THEN Item(key, value) ELSE kids[i]]
    ELSE Append(kids, Item(key, value))

\* json.scanner.py_make_scanner's _scan_once, with JSONObject and JSONArray
RECURSIVE ScanOnce(_, _)
RECURSIVE ScanMembers(_, _, _)
RECURSIVE ScanElements(_, _, _)
ScanOnce(s, i) ==
    LET object(j) ==
            IF j <= Len(s) /\ s[j] = "}" THEN ScanOk(PyDict(<<>>), j + 1)
            ELSE ScanMembers(s, j, <<>>)
        array(j) ==
            IF j <= Len(s) /\ s[j] = "]" THEN ScanOk(PyList(<<>>), j + 1)
            ELSE ScanElements(s, j, <<>>)
        numberOrConstant(number) ==
            IF number.ok THEN number
            ELSE IF HasAt(s, i, <<"N", "a", "N">>) THEN ScanOk(PyFloatConst(<<"n", "a", "n">>), i + 3)
            ELSE IF HasAt(s, i, <<"I", "n", "f", "i", "n", "i", "t", "y">>)
            THEN ScanOk(PyFloatConst(<<"i", "n", "f">>), i + 8)
            ELSE IF HasAt(s, i, <<"-", "I", "n", "f", "i", "n", "i", "t", "y">>)
            THEN ScanOk(PyFloatConst(<<"-", "i", "n", "f">>), i + 9)
            ELSE ScanFail
    IN  IF i > Len(s) THEN ScanFail
        ELSE IF s[i] = "\"" THEN ScanString(s, i + 1, <<>>)
        ELSE IF s[i] = "{" THEN object(SkipWs(s, i + 1))
        ELSE IF s[i] = "[" THEN array(SkipWs(s, i + 1))
        ELSE IF HasAt(s, i, <<"n", "u", "l", "l">>) THEN ScanOk(PyNone, i + 4)
        ELSE IF HasAt(s, i, <<"t", "r", "u", "e">>) THEN ScanOk(PyBool(TRUE), i + 4)
        ELSE IF HasAt(s, i, <<"f", "a", "l", "s", "e">>) THEN ScanOk(PyBool(FALSE), i + 5)
        ELSE numberOrConstant(ScanNumber(s, i))

\* JSONObject from the first key on, j at the key's opening quote
ScanMembers(s, j, acc) ==
    LET next(e, pairs) ==
            IF e > Len(s) THEN ScanFail
            ELSE IF s[e] = "}" THEN ScanOk(PyDict(pairs), e + 1)
            ELSE IF s[e] = "," THEN ScanMembers(s, SkipWs(s, e + 1), pairs)
            ELSE ScanFail
        afterValue(key, value) ==
            IF ~value.ok THEN ScanFail
            ELSE next(SkipWs(s, value.pos), DictSet(acc, key.v.s, value.v))
        afterKey(key, colon) ==
            IF ~key.ok THEN ScanFail
            ELSE IF colon > Len(s) \/ s[colon] # ":" THEN ScanFail
            ELSE afterValue(key, ScanOnce(s, SkipWs(s, colon + 1)))
        withKey(key) == afterKey(key, SkipWs(s, key.pos))
    IN  IF j > Len(s) \/ s[j] # "\"" THEN ScanFail
        ELSE withKey(ScanString(s, j + 1, <<>>))

\* JSONArray from the first element on
ScanElements(s, j, acc) ==
    LET next(e, values) ==
            IF e > Len(s) THEN ScanFail
            ELSE IF s[e] = "]" THEN ScanOk(PyList(values), e + 1)
            ELSE IF s[e] = "," THEN ScanElements(s, SkipWs(s, e + 1), values)
            ELSE ScanFail
        afterValue(value) ==
            IF ~value.ok THEN ScanFail
            ELSE next(SkipWs(s, value.pos), Append(acc, Item("", value.v)))
    IN  afterValue(ScanOnce(s, j))

\* json.loads(s): the value, or the JSONDecodeError
JsonLoads(s) ==
    LET atEnd(r) ==
            IF r.ok /\ SkipWs(s, r.pos) = Len(s) + 1 THEN [ok |-> TRUE, v |-> r.v]
            ELSE [ok |-> FALSE, v |-> PyNone]
    IN  atEnd(ScanOnce(s, SkipWs(s, 1)))

\* try_parse(payload): json.loads(payload), None when it raises
TryParse(payload) ==
    LET orNone(r) == IF r.ok THEN r.v ELSE PyNone
    IN  orNone(JsonLoads(payload))

(***************************************************************************)
(* The two lenient parsers: extractor_service._json_safe and               *)
(* mapping_service._json_safe.                                             *)
(***************************************************************************)
\* str.find(ch) and str.rfind(ch), 0 for Python's -1 (positions count from 1)
Find(s, ch) ==
    IF \E i \in 1..Len(s) : s[i] = ch
    THEN CHOOSE i \in 1..Len(s) : s[i] = ch /\ \A j \in 1..(i - 1) : s[j] # ch
    ELSE 0
RFind(s, ch) ==
    IF \E i \in 1..Len(s) : s[i] = ch
    THEN CHOOSE i \in 1..Len(s) : s[i] = ch /\ \A j \in (i + 1)..Len(s) : s[j] # ch
    ELSE 0

\* the positions where a line of s ends: "\n", "\f", or a "\r" that no "\n" follows
LineEnds(s) ==
    {i \in 1..Len(s) :
        \/ s[i] \in {"\n", "\f"}
        \/ (s[i] = "\r" /\ ~(i < Len(s) /\ s[i + 1] = "\n"))}

\* str.splitlines()
SplitLines(s) ==
    LET ends == LineEnds(s)
        starts == {b \in {1} \cup {e + 1 : e \in ends} : b <= Len(s)}
        nth(k) == CHOOSE b \in starts : Cardinality({c \in starts : c < b}) = k - 1
        stop(b) ==
            IF \E e \in ends : e >= b
            THEN LET e == CHOOSE x \in ends : x >= b /\ \A y \in ends : y >= b => x <= y
                 IN  IF s[e] = "\n" /\ e > b /\ s[e - 1] = "\r" THEN e - 2 ELSE e - 1
            ELSE Len(s)
    IN  [k \in 1..Cardinality(starts) |-> SubSeq(s, nth(k), stop(nth(k)))]

\* "\n".join(lines)
RECURSIVE JoinLines(_)
JoinLines(lines) ==
    IF Len(lines) = 0 THEN <<>>
    ELSE IF Len(lines) = 1 THEN lines[1]
    ELSE lines[1] \o <<"\n">> \o JoinLines(Tail(lines))

\* the backquote character, which no string literal here can hold
Backquote == "BACKQUOTE"

Fence == <<Backquote, Backquote, Backquote>>

\* _strip_code_fences(text)
StripCodeFences(text) ==
    LET stripped == Strip(text)
        lines == SplitLines(stripped)
        body == IF Len(lines) > 0 /\ HasAt(LStrip(lines[1]), 1, Fence) THEN Tail(lines) ELSE lines
        inner == IF Len(body) > 0 /\ HasAt(Strip(body[Len(body)]), 1, Fence)
                 THEN SubSeq(body, 1, Len(body) - 1) ELSE body
    IN  IF HasAt(stripped, 1, Fence) THEN JoinLines(inner) ELSE text

\* the end of the run of \s characters that starts at i
RECURSIVE SpaceEnd(_, _)
SpaceEnd(s, i) == IF i <= Len(s) /\ (IsSpace(s[i]) \/ s[i] = "\f") THEN SpaceEnd(s, i + 1) ELSE i

\* ,\d{3} at p
HasGroup(s, p) == p + 3 <= Len(s) /\ s[p] = "," /\ \A k \in 1..3 : s[p + k] \in Digits

\* how many ,\d{3} groups follow one another from p on
RECURSIVE GroupsFrom(_, _)
GroupsFrom(s, p) == IF HasGroup(s, p) THEN 1 + GroupsFrom(s, p + 4) ELSE 0

\* (?:\.\d+)?(\s*[,\}]) at p: where the number ends and where the match ends
NumberTail(s, p) ==
    LET f == IF p <= Len(s) /\ s[p] = "." /\ DigitsEnd(s, p + 1) > p + 1
             THEN DigitsEnd(s, p + 1) ELSE p
        w == SpaceEnd(s, f)
    IN  [ok |-> w <= Len(s) /\ s[w] \in {",", "}"}, numEnd |-> f - 1, end |-> w]

\* the pattern (:\s*)(\d{1,3}(?:,\d{3})+(?:\.\d+)?)(\s*[,\}]) matched at i: the
\* regex takes the most groups after which the rest still matches
ThousandsMatch(s, i) ==
    LET j == SpaceEnd(s, i + 1)
        d == DigitsEnd(s, j)
        counts == {k \in 1..GroupsFrom(s, d) : NumberTail(s, d + 4 * k).ok}
        k == CHOOSE x \in counts : \A y \in counts : y <= x
    IN  IF s[i] = ":" /\ d - j \in 1..3 /\ counts # {}
        THEN [ok |-> TRUE, numStart |-> j, numEnd |-> NumberTail(s, d + 4 * k).numEnd]
        ELSE [ok |-> FALSE, numStart |-> 0, numEnd |-> 0]

\* _fix_thousands_separators(candidate): every match is rewritten with its number
\* in quotes.  A match holds no ':' after its first character, so matches never
\* overlap and each quote goes in front of a position of the candidate.
FixThousandsSeparators(candidate) ==
    LET matches == {i \in 1..Len(candidate) : ThousandsMatch(candidate, i).ok}
        quotes == {ThousandsMatch(candidate, i).numStart : i \in matches}
                  \cup {ThousandsMatch(candidate, i).numEnd + 1 : i \in matches}
        at(p) == p + Cardinality({q \in quotes : q <= p})
    IN  [k \in 1..(Len(candidate) + Cardinality(quotes)) |->
            IF \E p \in 1..Len(candidate) : at(p) = k
            THEN candidate[CHOOSE p \in 1..Len(candidate) : at(p) = k]
            ELSE "\""]

EmptyObject == PyDict(<<>>)

\* `text or ""`
TextOrEmpty(text) == IF text.t = "str" THEN text.s ELSE <<>>

\* `if parsed is not None: return parsed`, rest being what the function does next
ReturnIfParsed(parsed, rest) == IF parsed # PyNone THEN parsed ELSE rest

\* extractor_service._json_safe(text)
ExtractorJsonSafe(text) ==
    LET repaired(candidate) ==
            ReturnIfParsed(TryParse(candidate),
                ReturnIfParsed(TryParse(FixThousandsSeparators(candidate)), EmptyObject))
        block(cleaned, start, end) ==
            IF start = 0 \/ end = 0 \/ end <= start THEN EmptyObject
            ELSE repaired(SubSeq(cleaned, start, end))
        whole(cleaned) ==
            ReturnIfParsed(TryParse(cleaned), block(cleaned, Find(cleaned, "{"), RFind(cleaned, "}")))
    IN  whole(StripCodeFences(TextOrEmpty(text)))

\* mapping_service._json_safe(text)
MappingJsonSafe(text) ==
    LET block(cleaned, start, end) ==
            IF start # 0 /\ end # 0 /\ end > start
            THEN ReturnIfParsed(TryParse(SubSeq(cleaned, start, end)), EmptyObject)
            ELSE EmptyObject
        whole(cleaned) ==
            IF Len(cleaned) = 0 THEN EmptyObject
            ELSE ReturnIfParsed(TryParse(cleaned),
                                block(cleaned, Find(cleaned, "{"), RFind(cleaned, "}")))
    IN  whole(Strip(TextOrEmpty(text)))

(***************************************************************************)
(* _json_safe applied to one text, by either service                       *)
(***************************************************************************)
MaxParseLen == 3    \* longest text enumerated over ParseAlphabet

ParseAlphabet == {"{", "}", "[", "]", "\"", ":", ",", "1", " "}

\* the spec's example: a fenced object holding "Net Rentals SF": 111,625,
FencedThousands ==
    <<Backquote, Backquote, Backquote, "j", "s", "o", "n", "\n", "{", "\"", "N", "e", "t", " ", "R", "e", "n",
      "t", "a", "l", "s", " ", "S", "F", "\"", ":", " ", "1", "1", "1", ",", "6", "2", "5",
      ",", " ", "\"", "b", "\"", ":", " ", "1", "}", "\n", Backquote, Backquote, Backquote>>

ParseExamples ==
    {
      \* prose
      <<"n", "o", " ", "j", "s", "o", "n">>,
      \* null
      <<"n", "u", "l", "l">>,
      \* array
      <<"[", "1", ",", " ", "2", "]">>,
      \* number
      <<"-", "1", "2", ".", "5", "e", "1">>,
      \* string literal
      <<"\"", "a", "b", "c", "\"">>,
      \* true
      <<"t", "r", "u", "e">>,
      \* truncated
      <<"{", "\"", "a", "\"", ":", " ", "{", "\"", "b", "\"", ":", " ", "1", "}">>,
      \* object in prose
      <<"S", "u", "r", "e", ":", " ", "{", "\"", "a", "\"", ":", " ", "[", "t", "r", "u", "e",
        ",", " ", "n", "u", "l", "l", "]", "}", " ", "o", "k">>,
      \* escape and duplicate key
      <<"{", "\"", "a", "\\", "\"", "\"", ":", " ", "1", ",", " ", "\"", "a", "\\", "\"", "\"",
        ":", " ", "2", "}">>,
      \* fenced object
      <<Backquote, Backquote, Backquote, "j", "s", "o", "n", "\n", "{", "\"", "a", "\"", ":", " ", "1", "}",
        "\n", Backquote, Backquote, Backquote>>,
      \* fenced array
      <<Backquote, Backquote, Backquote, "\n", "[", "1", "]", "\n", Backquote, Backquote, Backquote>>,
      \* fence on one line
      <<Backquote, Backquote, Backquote, "{", "\"", "a", "\"", ":", " ", "1", "}", Backquote, Backquote, Backquote>>,
      \* fence never closed
      <<Backquote, Backquote, Backquote, "j", "s", "o", "n", "\r", "\n", "{", "\"", "a", "\"", ":", " ", "1",
        "}">>,
      \* bare thousands
      <<"{", "\"", "a", "\"", ":", " ", "1", ",", "2", "3", "4", "}">>,
      \* thousands with fraction
      <<"{", "\"", "a", "\"", ":", " ", "1", "2", ",", "3", "4", "5", ".", "6", "7", " ", ",",
        " ", "\"", "b", "\"", ":", " ", "\"", "x", "\"", "}">>,
      \* thousands, the last group too long
      <<"{", "\"", "a", "\"", ":", " ", "1", ",", "2", "3", "4", ",", "5", "6", "7", "8", ",",
        " ", "\"", "b", "\"", ":", " ", "2", "}">>,
      \* thousands before a closing comma
      <<"{", "\"", "a", "\"", ":", " ", "1", "1", "1", ",", "6", "2", "5", ",", "}">>,
      \* four leading digits
      <<"{", "\"", "a", "\"", ":", " ", "1", "2", "3", "4", ",", "5", "6", "7", "}">>,
      \* NaN
      <<"N", "a", "N">>,
      FencedThousands }

\* None, the empty text, every short text over the alphabet, the examples
ParseInputs ==
    {PyNone} \cup {PyStr(t) : t \in SeqsUpTo(ParseAlphabet, MaxParseLen) \cup ParseExamples}

ParseInit ==
    /\ pPc = "call"
    /\ pWho = "none"
    /\ pText \in ParseInputs
    /\ pOut = PyNone

ParseIdle ==
    /\ pPc = "off"
    /\ pWho = "none"
    /\ pText = PyNone
    /\ pOut = PyNone

\* `output or "{}"`
OrEmptyObjectText(text) == IF Truthy(text) THEN text ELSE PyStr(<<"{", "}">>)

\* extractor_service: payload = _json_safe(output or "{}"), output the extraction
\* model's reply
ExtractorJsonSafeCall ==
    /\ pPc = "call"
    /\ pOut' = ExtractorJsonSafe(OrEmptyObjectText(pText))
    /\ pWho' = "extractor"
    /\ pPc' = "done"
    /\ UNCHANGED pText
    /\ UNCHANGED notParse

\* mapping_service: payload = _json_safe(content or "{}"), content the mapping
\* model's reply
MappingJsonSafeCall ==
    /\ pPc = "call"
    /\ pOut' = MappingJsonSafe(OrEmptyObjectText(pText))
    /\ pWho' = "mapping"
    /\ pPc' = "done"
    /\ UNCHANGED pText
    /\ UNCHANGED notParse

ParseNext ==
    \/ ExtractorJsonSafeCall
    \/ MappingJsonSafeCall

(***************************************************************************)
(* Claims about the lenient parsers (checked under SpecParse)              *)
(***************************************************************************)
\* the texts the repair chain parses: the text without its fence, its substring
\* from the first '{' to the last '}', that substring with the thousands quoted
ChainCandidates(text) ==
    LET cleaned == StripCodeFences(TextOrEmpty(text))
        start == Find(cleaned, "{")
        end == RFind(cleaned, "}")
        candidate == SubSeq(cleaned, start, end)
    IN  IF start = 0 \/ end = 0 \/ end <= start THEN <<cleaned>>
        ELSE <<cleaned, candidate, FixThousandsSeparators(candidate)>>

\* C8: for every text (None, empty, prose, an array, a number, a string literal,
\* null, truncated JSON) the lenient parser returns a JSON object, and the empty
\* object when none of the texts it may parse holds an object.
C8_TotalAndObjectValued ==
    pPc = "done" =>
        /\ pOut.t = "dict"
        /\ (\A i \in 1..Len(ChainCandidates(pText)) :
                TryParse(ChainCandidates(pText)[i]).t # "dict") => pOut = EmptyObject

\* the first candidate of the chain that parses to a value, the empty object when
\* none does
RECURSIVE FirstSuccess(_)
FirstSuccess(cands) ==
    IF Len(cands) = 0 THEN EmptyObject
    ELSE IF TryParse(Head(cands)) # PyNone THEN TryParse(Head(cands))
    ELSE FirstSuccess(Tail(cands))

FencedThousandsObject ==
    PyDict(<< Item(<<"N", "e", "t", " ", "R", "e", "n", "t", "a", "l", "s", " ", "S", "F">>,
                   PyStr(<<"1", "1", "1", ",", "6", "2", "5">>)),
              Item(<<"b">>, PyNum(1, 1)) >>)

\* C9: either service's lenient parser returns what the chain gives (fence
\* stripping, strict parse of the whole text, of the '{'..'}' substring, of that
\* substring with the thousands quoted, stopping at the first success), so the
\* fenced object holding "Net Rentals SF": 111,625, parses to the object with
\* "Net Rentals SF" -> "111,625".
C9_RepairFallbackChain ==
    pPc = "done" =>
        /\ pOut = FirstSuccess(ChainCandidates(pText))
        /\ pText = PyStr(FencedThousands) => pOut = FencedThousandsObject

(***************************************************************************)
(* The session record and its mapping (routes/sessions.py,                 *)
(* repositories/sessions_repo.py, mapping_service.map_to_canonical).       *)
(* One session document exists in the collection; requests on it run as    *)
(* coroutines of one event loop, so the code between two awaits is one     *)
(* step, and each motor call is one atomic operation of the database.      *)
(***************************************************************************)
\* the strings the mapping payloads use, each with its characters: a JSON string
\* and the Python str it becomes are the same text
KnownStrings ==
    <<
       [name |-> "mapped", chars |-> <<"m", "a", "p", "p", "e", "d">>],
       [name |-> "missing_fields", chars |-> <<"m", "i", "s", "s", "i", "n", "g", "_", "f", "i", "e", "l", "d", "s">>],
       [name |-> "metadata", chars |-> <<"m", "e", "t", "a", "d", "a", "t", "a">>],
       [name |-> "growth_assumptions", chars |-> <<"g", "r", "o", "w", "t", "h", "_", "a", "s", "s", "u", "m", "p", "t", "i", "o", "n", "s">>],
       [name |-> "market_rent_growth", chars |-> <<"m", "a", "r", "k", "e", "t", "_", "r", "e", "n", "t", "_", "g", "r", "o", "w", "t", "h">>],
       [name |-> "taxes_growth", chars |-> <<"t", "a", "x", "e", "s", "_", "g", "r", "o", "w", "t", "h">>],
       [name |-> "unit_mix", chars |-> <<"u", "n", "i", "t", "_", "m", "i", "x">>],
       [name |-> "table", chars |-> <<"t", "a", "b", "l", "e">>],
       [name |-> "field", chars |-> <<"f", "i", "e", "l", "d">>],
       [name |-> "reason", chars |-> <<"r", "e", "a", "s", "o", "n">>],
       [name |-> "not in source", chars |-> <<"n", "o", "t", " ", "i", "n", " ", "s", "o", "u", "r", "c", "e">>],
       [name |-> "confidence", chars |-> <<"c", "o", "n", "f", "i", "d", "e", "n", "c", "e">>],
       [name |-> "source_fields", chars |-> <<"s", "o", "u", "r", "c", "e", "_", "f", "i", "e", "l", "d", "s">>],
       [name |-> "table_label", chars |-> <<"t", "a", "b", "l", "e", "_", "l", "a", "b", "e", "l">>],
       [name |-> "field_label", chars |-> <<"f", "i", "e", "l", "d", "_", "l", "a", "b", "e", "l">>],
       [name |-> "generated_at", chars |-> <<"g", "e", "n", "e", "r", "a", "t", "e", "d", "_", "a", "t">>],
       [name |-> "warnings", chars |-> <<"w", "a", "r", "n", "i", "n", "g", "s">>],
       [name |-> "model_version", chars |-> <<"m", "o", "d", "e", "l", "_", "v", "e", "r", "s", "i", "o", "n">>],
       [name |-> "low", chars |-> <<"l", "o", "w">>]
    >>

OtherString == "<other>"

\* the str a parsed JSON string is
Intern(chars) ==
    IF \E i \in 1..Len(KnownStrings) : KnownStrings[i].chars = chars
    THEN KnownStrings[CHOOSE i \in 1..Len(KnownStrings) : KnownStrings[i].chars = chars].name
    ELSE OtherString

\* a parsed JSON value with its object keys as str
RECURSIVE InternKeys(_)
InternKeys(v) ==
    IF v.t = "dict"
    THEN PyDict([i \in 1..Len(v.kids) |-> Item(Intern(v.kids[i].k), InternKeys(v.kids[i].v))])
    ELSE IF v.t = "list"
    THEN PyList([i \in 1..Len(v.kids) |-> Item("", InternKeys(v.kids[i].v))])
    ELSE v

\* Optional[str] field `key` of the object d: [ok, v]
OptionalStr(d, key) ==
    LET x == Get(d, key)
    IN  IF x.t = "none" THEN [ok |-> TRUE, v |-> NONE]
        ELSE IF x.t = "str" THEN [ok |-> TRUE, v |-> Intern(x.s)]
        ELSE [ok |-> FALSE, v |-> NONE]

\* Optional[List[str]] field `key` of the object d: [ok, v]
OptionalStrList(d, key) ==
    LET x == Get(d, key)
    IN  IF x.t = "none" THEN [ok |-> TRUE, v |-> NONE]
        ELSE IF x.t = "list" /\ \A i \in 1..Len(x.kids) : x.kids[i].v.t = "str"
        THEN [ok |-> TRUE, v |-> [i \in 1..Len(x.kids) |-> Intern(x.kids[i].v.s)]]
        ELSE [ok |-> FALSE, v |-> NONE]

\* MissingField.model_validate(e): table, field and reason are required str
MissingFieldValid(e) ==
    /\ e.t = "dict"
    /\ \A key \in {"table", "field", "reason"} : Get(e, key).t = "str"
    /\ \A key \in {"confidence", "table_label", "field_label"} : OptionalStr(e, key).ok
    /\ OptionalStrList(e, "source_fields").ok

MissingFieldOf(e) ==
    [table |-> Intern(Get(e, "table").s),
     field |-> Intern(Get(e, "field").s),
     reason |-> Intern(Get(e, "reason").s),
     confidence |-> OptionalStr(e, "confidence").v,
     source_fields |-> OptionalStrList(e, "source_fields").v,
     table_label |-> OptionalStr(e, "table_label").v,
     field_label |-> OptionalStr(e, "field_label").v]

\* MappingMetadata.model_validate(m).  A given generated_at is taken as a well-formed
\* timestamp; its value and the given labels are not kept, lines 276-279 overwrite them
\* before anything reads them.
MetadataValid(m) ==
    /\ m.t = "dict"
    /\ ~HasKey(m, "generated_at") \/ Get(m, "generated_at").t \in {"str", "num"}
    /\ OptionalStrList(m, "warnings").ok
    /\ OptionalStr(m, "model_version").ok
    /\ ~HasKey(m, "table_labels") \/
          (Get(m, "table_labels").t = "dict" /\
           \A i \in 1..Len(Get(m, "table_labels").kids) : Get(m, "table_labels").kids[i].v.t = "str")
    /\ ~HasKey(m, "field_labels") \/
          (Get(m, "field_labels").t = "dict" /\
           \A i \in 1..Len(Get(m, "field_labels").kids) :
               LET inner == Get(m, "field_labels").kids[i].v
               IN  inner.t = "dict" /\ \A j \in 1..Len(inner.kids) : inner.kids[j].v.t = "str")

MetadataOf(m, now) ==
    [generated_at |-> now,
     warnings |-> OptionalStrList(m, "warnings").v,
     model_version |-> OptionalStr(m, "model_version").v,
     table_labels |-> <<>>,
     field_labels |-> <<>>]

\* a field of the model, its default when the payload leaves it out
FieldOr(p, key, default) == IF HasKey(p, key) THEN Get(p, key) ELSE default

\* MappingResult.model_validate(payload) at time `now`: [ok, result]
ModelValidate(payload, now) ==
    LET fields(p) ==
            LET mapped == FieldOr(p, "mapped", PyDict(<<>>))
                missing == FieldOr(p, "missing_fields", PyList(<<>>))
                metadata == FieldOr(p, "metadata", PyDict(<<>>))
                ok == /\ MappingResultValid(mapped)
                      /\ missing.t = "list"
                      /\ \A i \in 1..Len(missing.kids) : MissingFieldValid(missing.kids[i].v)
                      /\ MetadataValid(metadata)
            IN  IF ok
                THEN [ok |-> TRUE,
                      result |-> [mapped |-> mapped,
                                  missing_fields |-> [i \in 1..Len(missing.kids) |->
                                                         MissingFieldOf(missing.kids[i].v)],
                                  metadata |-> MetadataOf(metadata, now)]]
                ELSE [ok |-> FALSE, result |-> NoResult]
    IN  IF payload.t = "dict" THEN fields(InternKeys(payload)) ELSE [ok |-> FALSE, result |-> NoResult]

\* the 400 of (content or "")[:400]
SnippetLimit == 400

\* a snippet that is the whole reply
SnippetWhole(content) == TextOrEmpty(content)

\* snippet = (content or "")[:400]
Snippet(content) ==
    LET text == TextOrEmpty(content)
    IN  SubSeq(text, 1, IF Len(text) < SnippetLimit THEN Len(text) ELSE SnippetLimit)

NoError == [type |-> "none", message |-> "", snippet |-> <<>>]

\* ValueError(f"Model returned no parsable JSON for mapping. Raw output (truncated): {snippet}")
NoParsableJson(content) ==
    [type |-> "ValueError",
     message |-> "Model returned no parsable JSON for mapping. Raw output (truncated): ",
     snippet |-> Snippet(content)]

\* pydantic's ValidationError, a ValueError
ValidationError == [type |-> "ValidationError", message |-> "validation error for MappingResult",
                    snippet |-> <<>>]

EmptySource == [type |-> "ValueError", message |-> "Source JSON is empty; cannot perform mapping.",
                snippet |-> <<>>]

Raised(error) == [raised |-> TRUE, error |-> error, finalized |-> FALSE, result |-> NoResult]

\* MappingResult.model_validate_json(content or "{}"): strict JSON, then the same validation
ModelValidateJson(content, now) ==
    LET validated(payload) ==
            IF payload = PyNone THEN [ok |-> FALSE, result |-> NoResult]
            ELSE ModelValidate(payload, now)
    IN  validated(TryParse(OrEmptyObjectText(content).s))

\* map_to_canonical(source_json), `content` being the reply of the mapping model:
\* what it raises, or the MappingResult _finalize_mapping returns
MapToCanonical(source_json, content, now) ==
    LET finalize(parsed) ==
            LET done(r) ==
                    IF r.ok
                    THEN [raised |-> FALSE, error |-> NoError, finalized |-> TRUE, result |-> r.ret]
                    ELSE [raised |-> TRUE, error |-> ValidationError, finalized |-> TRUE,
                          result |-> NoResult]
            IN  done(FinalizeMapping(parsed, now))
        fallback(second) ==
            IF second.ok THEN finalize(second.result) ELSE Raised(ValidationError)
        validate(payload, first) ==
            IF first.ok THEN finalize(first.result)
            ELSE fallback(ModelValidateJson(content, now))
        parsed(payload) ==
            IF ~Truthy(payload) THEN Raised(NoParsableJson(content))
            ELSE validate(payload, ModelValidate(payload, now))
    IN  IF ~Truthy(source_json) THEN Raised(EmptySource)
        ELSE parsed(MappingJsonSafe(OrEmptyObjectText(content)))

(***************************************************************************)
(* Requests on the session                                                 *)
(***************************************************************************)
MaxRequests == 2    \* writing requests made on the session in one behaviour
MaxInFlight == 2    \* of them, in progress at the same time

\* replies of the mapping model (response.choices[0].message.content)
ReplyDirect == PyStr(<<"{", "\"", "m", "a", "p", "p", "e", "d", "\"", ":", "{", "\"", "g", "r", "o", "w", "t", "h", "_", "a", "s", "s", "u", "m", "p", "t", "i", "o", "n", "s", "\"", ":", "{", "\"", "m", "a", "r", "k", "e", "t", "_", "r", "e", "n", "t", "_", "g", "r", "o", "w", "t", "h", "\"", ":", "\"", "7", "\"", "}", ",", "\"", "u", "n", "i", "t", "_", "m", "i", "x", "\"", ":", "{", "}", "}", "}">>)
ReplyInProse == PyStr(<<"H", "e", "r", "e", ":", " ", "{", "\"", "m", "a", "p", "p", "e", "d", "\"", ":", "{", "\"", "g", "r", "o", "w", "t", "h", "_", "a", "s", "s", "u", "m", "p", "t", "i", "o", "n", "s", "\"", ":", "{", "\"", "t", "a", "x", "e", "s", "_", "g", "r", "o", "w", "t", "h", "\"", ":", "\"", "7", "\"", "}", ",", "\"", "u", "n", "i", "t", "_", "m", "i", "x", "\"", ":", "{", "}", "}", ",", "\"", "m", "i", "s", "s", "i", "n", "g", "_", "f", "i", "e", "l", "d", "s", "\"", ":", "[", "{", "\"", "t", "a", "b", "l", "e", "\"", ":", "\"", "g", "r", "o", "w", "t", "h", "_", "a", "s", "s", "u", "m", "p", "t", "i", "o", "n", "s", "\"", ",", "\"", "f", "i", "e", "l", "d", "\"", ":", "\"", "m", "a", "r", "k", "e", "t", "_", "r", "e", "n", "t", "_", "g", "r", "o", "w", "t", "h", "\"", ",", "\"", "r", "e", "a", "s", "o", "n", "\"", ":", "\"", "n", "o", "t", " ", "i", "n", " ", "s", "o", "u", "r", "c", "e", "\"", "}", "]", "}", " ", "o", "k">>)
ReplyTableRows == PyStr(<<"{", "\"", "m", "a", "p", "p", "e", "d", "\"", ":", "{", "\"", "u", "n", "i", "t", "_", "m", "i", "x", "\"", ":", "[", "]", "}", "}">>)
ReplyEmptyObject == PyStr(<<"{", "}">>)
ReplyLong == PyStr([i \in 1..(SnippetLimit + 1) |-> IF i = 1 THEN "{" ELSE "x"])

Replies == {ReplyDirect, ReplyInProse, ReplyTableRows, ReplyEmptyObject, ReplyLong, PyNone}

DefaultMetadata == [generated_at |-> 0, warnings |-> NONE, model_version |-> NONE,
                    table_labels |-> <<>>, field_labels |-> <<>>]

GrowthOnly(field) ==
    PyDict(<<Item("growth_assumptions", PyDict(<<Item(field, SomeText)>>)),
             Item("unit_mix", PyDict(<<>>))>>)

\* request bodies of PUT /sessions/{id}/mapping, as FastAPI validated them
SaveBodies ==
    { [mapped |-> GrowthOnly("market_rent_growth"), missing_fields |-> <<>>,
       metadata |-> DefaultMetadata],
      [mapped |-> GrowthOnly("taxes_growth"),
       missing_fields |-> <<MissingField("growth_assumptions", "market_rent_growth",
                                         "not in source", "low", NONE, NONE)>>,
       metadata |-> DefaultMetadata],
      [mapped |-> PyDict(<<>>), missing_fields |-> <<>>, metadata |-> DefaultMetadata] }

ExtractedJson == PyDict(<<Item("Rent Growth", SomeText)>>)

NoJob == [status |-> "none", started_at |-> 0, completed_at |-> 0, error |-> NoError]

\* a request in progress: its handler, where it is, and its locals
\* (content is the mapping model's reply once the handler has it, Absent before)
Request(id, kind, pc, source, content, out, job) ==
    [id |-> id, kind |-> kind, pc |-> pc, source |-> source, content |-> content,
     out |-> out, job |-> job]

NoResponse == [id |-> 0, kind |-> "none", status_code |-> 0, error |-> NoError, content |-> Absent]

\* the response request `id` ended with, and the reply its handler held
Response(id, kind, status_code, error, content) ==
    [id |-> id, kind |-> kind, status_code |-> status_code, error |-> error,
     content |-> content]

SessionInit ==
    /\ sDb \in [mapping : {NoResult}, mapping_job : {NoJob}, final_json : {PyNone},
                extracted_json : {PyNone, ExtractedJson}, updated_at : {0}]
    /\ sReq = {}
    /\ sHist = {}
    /\ sClock = 1
    /\ sStarted = 0
    /\ sSeen = NoResult
    /\ sLast = NoResponse

SessionIdle ==
    /\ sDb = [mapping |-> NoResult, mapping_job |-> NoJob, final_json |-> PyNone,
              extracted_json |-> PyNone, updated_at |-> 0]
    /\ sReq = {}
    /\ sHist = {}
    /\ sClock = 1
    /\ sStarted = 0
    /\ sSeen = NoResult
    /\ sLast = NoResponse

\* sessions_repo.set_mapping that sets the document and the metadata and leaves the
\* stored report in place
SetMappingKeepsReport(db, mapping, now) ==
    IF db.mapping = NoResult
    THEN [db EXCEPT !.mapping = mapping, !.updated_at = now]
    ELSE [db EXCEPT !.mapping.mapped = mapping.mapped, !.mapping.metadata = mapping.metadata,
                    !.updated_at = now]

\* sessions_repo.set_mapping(db, session_id, mapping): one update_one that $sets the
\* whole dumped mapping
SetMapping(db, mapping, now) == [db EXCEPT !.mapping = mapping, !.updated_at = now]

\* sessions_repo.set_mapping_job(db, session_id, job)
SetMappingJob(db, job, now) == [db EXCEPT !.mapping_job = job, !.updated_at = now]

\* doc.get("final_json") or doc.get("extracted_json")
SourceOf(doc) == IF Truthy(doc.final_json) THEN doc.final_json ELSE doc.extracted_json

\* a request arrives while fewer than MaxInFlight are in progress; its handler runs
\* up to the end of its first database call
Arrives ==
    /\ Cardinality(sReq) < MaxInFlight
    /\ sStarted < MaxRequests
    /\ sStarted' = sStarted + 1

At(req, kind, pc) == req.kind = kind /\ req.pc = pc

\* the request goes on as `next`
Continues(req, next) == sReq' = (sReq \ {req}) \cup {next}

\* the request ends with this response
Responds(req, status_code, error) ==
    /\ sReq' = sReq \ {req}
    /\ sLast' = Response(req.id, req.kind, status_code, error, req.content)

\* PUT /sessions/{id}/mapping: save_mapping, lines 270-273: the session is read, the
\* body is normalized
SaveMappingGet ==
    /\ Arrives
    /\ LET normalized(n) ==
               /\ IF n.ok
                  THEN /\ sReq' = sReq \cup {Request(sStarted + 1, "save_mapping", "set_mapping",
                                                     PyNone, Absent, n.ret, NoJob)}
                       /\ UNCHANGED sLast
                  ELSE /\ sLast' = Response(sStarted + 1, "save_mapping", 500, ValidationError, Absent)
                       /\ UNCHANGED sReq
               /\ sHist' = IF n.ok THEN sHist \cup {n.ret} ELSE sHist
       IN  \E body \in SaveBodies : normalized(FinalizeMapping(body, sClock))
    /\ sClock' = sClock + 1
    /\ UNCHANGED <<sDb, sSeen>>
    /\ UNCHANGED notSession

\* save_mapping, lines 274-275
SaveMappingSet ==
    \E req \in sReq :
        /\ At(req, "save_mapping", "set_mapping")
        /\ sDb' = SetMapping(sDb, req.out, sClock)
        /\ Responds(req, 200, NoError)
        /\ UNCHANGED <<sHist, sClock, sStarted, sSeen>>
        /\ UNCHANGED notSession

\* POST /sessions/{id}/map: generate_mapping, lines 216-225: map_to_canonical runs
\* inside the coroutine
GenerateMappingGet ==
    /\ Arrives
    /\ IF ~Truthy(SourceOf(sDb))
       THEN /\ sLast' = Response(sStarted + 1, "generate_mapping", 400, NoError, Absent)
            /\ UNCHANGED <<sReq, sHist, sClock>>
       ELSE LET mapped(content, m) ==
                    /\ IF m.raised
                       THEN /\ sLast' = Response(sStarted + 1, "generate_mapping", 400,
                                                 m.error, content)
                            /\ UNCHANGED sReq
                       ELSE /\ sReq' = sReq \cup {Request(sStarted + 1, "generate_mapping",
                                                          "set_mapping", SourceOf(sDb),
                                                          content, m.result, NoJob)}
                            /\ UNCHANGED sLast
                    /\ sHist' = IF m.raised THEN sHist ELSE sHist \cup {m.result}
                    /\ sClock' = IF m.finalized THEN sClock + 1 ELSE sClock
            IN  \E content \in Replies :
                    mapped(content, MapToCanonical(SourceOf(sDb), content, sClock))
    /\ UNCHANGED <<sDb, sSeen>>
    /\ UNCHANGED notSession

\* generate_mapping, lines 226-227
GenerateMappingSet ==
    \E req \in sReq :
        /\ At(req, "generate_mapping", "set_mapping")
        /\ sDb' = SetMapping(sDb, req.out, sClock)
        /\ Responds(req, 200, NoError)
        /\ UNCHANGED <<sHist, sClock, sStarted, sSeen>>
        /\ UNCHANGED notSession

RunningJob(now) == [status |-> "running", started_at |-> now, completed_at |-> 0, error |-> NoError]

\* POST /sessions/{id}/map/async: generate_mapping_async, lines 232-240
GenerateMappingAsyncGet ==
    /\ Arrives
    /\ IF ~Truthy(SourceOf(sDb))
       THEN /\ sLast' = Response(sStarted + 1, "generate_mapping_async", 400, NoError, Absent)
            /\ UNCHANGED sReq
       ELSE /\ sReq' = sReq \cup {Request(sStarted + 1, "generate_mapping_async",
                                          "set_mapping_job", SourceOf(sDb), Absent,
                                          NoResult, RunningJob(sClock))}
            /\ UNCHANGED sLast
    /\ UNCHANGED <<sDb, sHist, sClock, sSeen>>
    /\ UNCHANGED notSession

\* generate_mapping_async, lines 241-243: the job is stored, the task is created and
\* the running job is the response
GenerateMappingAsyncSetJob ==
    \E req \in sReq :
        /\ At(req, "generate_mapping_async", "set_mapping_job")
        /\ sDb' = SetMappingJob(sDb, req.job, sClock)
        /\ Continues(req, [req EXCEPT !.kind = "_run_mapping_job", !.pc = "start"])
        /\ sLast' = Response(req.id, "generate_mapping_async", 200, NoError, Absent)
        /\ UNCHANGED <<sHist, sClock, sStarted, sSeen>>
        /\ UNCHANGED notSession

\* _run_mapping_job, lines 28-31
RunMappingJobStart ==
    \E req \in sReq :
        /\ At(req, "_run_mapping_job", "start")
        /\ sDb' = SetMappingJob(sDb, RunningJob(sClock), sClock)
        /\ Continues(req, [req EXCEPT !.job = RunningJob(sClock), !.pc = "to_thread"])
        /\ UNCHANGED <<sHist, sClock, sStarted, sSeen, sLast>>
        /\ UNCHANGED notSession

\* job["status"] = "failed"; job["completed_at"] = ...; job["error"] = str(exc)
FailedJob(job, error, now) ==
    [job EXCEPT !.status = "failed", !.completed_at = now, !.error = error]

\* _run_mapping_job, lines 33 and 37-40: map_to_canonical in a worker thread
RunMappingJobMap ==
    \E req \in sReq :
        /\ At(req, "_run_mapping_job", "to_thread")
        /\ LET mapped(content, m) ==
                   /\ Continues(req,
                         IF m.raised
                         THEN [req EXCEPT !.content = content,
                                          !.job = FailedJob(@, m.error, sClock),
                                          !.pc = "set_mapping_job"]
                         ELSE [req EXCEPT !.content = content, !.out = m.result,
                                          !.pc = "set_mapping"])
                   /\ sHist' = IF m.raised THEN sHist ELSE sHist \cup {m.result}
                   /\ sClock' = IF m.finalized THEN sClock + 1 ELSE sClock
           IN  \E content \in Replies :
                   mapped(content, MapToCanonical(req.source, content, sClock))
        /\ UNCHANGED <<sDb, sStarted, sSeen, sLast>>
        /\ UNCHANGED notSession

\* _run_mapping_job, lines 34-36
RunMappingJobSetMapping ==
    \E req \in sReq :
        /\ At(req, "_run_mapping_job", "set_mapping")
        /\ sDb' = SetMapping(sDb, req.out, sClock)
        /\ Continues(req, [req EXCEPT !.job = [@ EXCEPT !.status = "succeeded",
                                                        !.completed_at = sClock],
                                      !.pc = "set_mapping_job"])
        /\ UNCHANGED <<sHist, sClock, sStarted, sSeen, sLast>>
        /\ UNCHANGED notSession

\* _run_mapping_job, line 41: the task ends
RunMappingJobFinish ==
    \E req \in sReq :
        /\ At(req, "_run_mapping_job", "set_mapping_job")
        /\ sDb' = SetMappingJob(sDb, req.job, sClock)
        /\ sReq' = sReq \ {req}
        /\ UNCHANGED <<sHist, sClock, sStarted, sSeen, sLast>>
        /\ UNCHANGED notSession

\* GET /sessions/{id}: get_session, lines 66-69: the reader holds the stored mapping
GetSession ==
    /\ sSeen' = sDb.mapping
    /\ UNCHANGED <<sDb, sReq, sHist, sClock, sStarted, sLast>>
    /\ UNCHANGED notSession

SessionNext ==
    \/ SaveMappingGet
    \/ SaveMappingSet
    \/ GenerateMappingGet
    \/ GenerateMappingSet
    \/ GenerateMappingAsyncGet
    \/ GenerateMappingAsyncSetJob
    \/ RunMappingJobStart
    \/ RunMappingJobMap
    \/ RunMappingJobSetMapping
    \/ RunMappingJobFinish
    \/ GetSession

(***************************************************************************)
(* Claims about the session record (checked under SpecSession)             *)
(***************************************************************************)
\* the mappings a reader can hold: the stored one and what each get_session read
ObservedMappings == {sDb.mapping, sSeen}

\* C13: in every reachable state, under any interleaving of save-mapping, map and
\* async-map-job operations on the session, the stored canonical document and the
\* stored missing-field report (and what any reader has read of them) are those of
\* one and the same normalize invocation.
C13_AtomicPairReplacement ==
    \A m \in ObservedMappings :
        m # NoResult =>
            \E inv \in sHist :
                /\ m.mapped = inv.mapped
                /\ m.missing_fields = inv.missing_fields
                /\ m.metadata = inv.metadata

\* a reader holds the mapping of one invocation while the record already holds the
\* mapping of a later one, with another document and another report
C13_Witness ==
    /\ sSeen # NoResult
    /\ sDb.mapping # NoResult
    /\ sSeen.mapped # sDb.mapping.mapped
    /\ sSeen.missing_fields # sDb.mapping.missing_fields
    /\ sSeen.metadata.generated_at < sDb.mapping.metadata.generated_at

\* the lenient parser returns the empty object for the reply
ParserGaveEmpty(content) ==
    content # Absent /\ MappingJsonSafe(OrEmptyObjectText(content)) = EmptyObject

\* the error carries a prefix of at most 400 characters of the reply
CarriesSnippetOf(error, content) ==
    /\ error.type = "ValueError"
    /\ Len(error.snippet) <= 400
    /\ Len(error.snippet) <= Len(TextOrEmpty(content))
    /\ error.snippet = SubSeq(TextOrEmpty(content), 1, Len(error.snippet))
    /\ Len(TextOrEmpty(content)) <= 400 => error.snippet = TextOrEmpty(content)

\* the step ran no normalize and left the stored mapping as it was
NothingNormalizedOrStored ==
    /\ sHist' = sHist
    /\ sClock' = sClock
    /\ sDb'.mapping = sDb.mapping

\* C15: when the lenient parser returns the empty object for the mapping model's
\* reply, map_to_canonical raises an error that carries a prefix of at most 400
\* characters of the reply (POST /map answers 400 with it, the async job records it
\* as failed), normalize is not run, and the session's stored mapping stays as it
\* was, in that step and in what that request does afterwards.
C15_MalformedPayloadReported ==
    [][/\ (sLast'.id # sLast.id /\ ParserGaveEmpty(sLast'.content)) =>
              /\ sLast'.status_code = 400
              /\ CarriesSnippetOf(sLast'.error, sLast'.content)
              /\ NothingNormalizedOrStored
       /\ \A req \in sReq' :
              (req \notin sReq /\ ParserGaveEmpty(req.content)) =>
                  /\ req.kind = "_run_mapping_job"
                  /\ req.pc = "set_mapping_job"
                  /\ req.out = NoResult
                  /\ req.job.status = "failed"
                  /\ CarriesSnippetOf(req.job.error, req.content)
                  /\ NothingNormalizedOrStored
       /\ \A req \in sReq :
              (req \notin sReq' /\ ParserGaveEmpty(req.content)) =>
                  /\ sDb'.mapping_job = req.job
                  /\ NothingNormalizedOrStored]_vars

\* POST /map has answered 400 with the first 400 characters of a reply of 401
\* characters, and the mapping an earlier request stored is still the stored one
C15_Witness ==
    /\ sLast.kind = "generate_mapping"
    /\ sLast.status_code = 400
    /\ sLast.content = ReplyLong
    /\ Len(sLast.error.snippet) = 400
    /\ sDb.mapping # NoResult
    /\ sDb.mapping \in sHist

\* the background jobs that have stored "running" (line 31) and have not yet
\* stored their final status (line 41)
ExecutingJobs ==
    {req \in sReq : req.kind = "_run_mapping_job"
                      /\ req.pc \in {"to_thread", "set_mapping", "set_mapping_job"}}

\* C29: for one session, however async-map requests and their background jobs
\* interleave, the stored job status is "running" whenever a background job has
\* started and not yet stored its final status; "succeeded" or "failed" is stored
\* only when no job of the session is executing.
C29_JobStatusReflectsRunningWork ==
    /\ ExecutingJobs # {} => sDb.mapping_job.status = "running"
    /\ sDb.mapping_job.status \in {"succeeded", "failed"} => ExecutingJobs = {}

(***************************************************************************)
(* The background mapping job and the status endpoint (routes/sessions.py  *)
(* lines 27-41 and 246-265).  The awaited database calls of the job can    *)
(* raise; what the job does with the exception is the code's.              *)
(***************************************************************************)
\* str(exc) of an exception raised by an update_one on the sessions collection
DatabaseError == [type |-> "PyMongoError", message |-> "database unavailable", snippet |-> <<>>]

NoStatus == [status |-> "none", started_at |-> 0, completed_at |-> 0, error |-> NoError,
             mapping |-> NoResult]

StatusIdle == sStatus = NoStatus

\* MappingJobStatus(status="pending")
PendingStatus == [status |-> "pending", started_at |-> 0, completed_at |-> 0,
                  error |-> NoError, mapping |-> NoResult]

\* MappingJobStatus.model_validate(job_data): the stored fields and the attached mapping
ModelValidateJobStatus(job_data, mapping) ==
    [status |-> job_data.status, started_at |-> job_data.started_at,
     completed_at |-> job_data.completed_at, error |-> job_data.error, mapping |-> mapping]

\* get_mapping_status, lines 252-265, on the session document
MappingStatusOf(doc) ==
    LET mapping == doc.mapping
        stored == doc.mapping_job
        job_data == IF mapping # NoResult /\ stored = NoJob
                    THEN [NoJob EXCEPT !.status = "succeeded"]
                    ELSE stored
        status == IF job_data.status = "none" THEN "pending" ELSE job_data.status
    IN  IF job_data = NoJob
        THEN PendingStatus
        ELSE ModelValidateJobStatus(job_data, IF status = "succeeded" THEN mapping ELSE NoResult)

\* GET /sessions/{id}/mapping/status
GetMappingStatus ==
    /\ sStatus' = MappingStatusOf(sDb)
    /\ UNCHANGED sessionVars
    /\ UNCHANGED notStatus

\* _run_mapping_job, lines 34 and 37-40: set_mapping raises, the except clause
\* makes the job failed
RunMappingJobSetMappingRaises ==
    \E req \in sReq :
        /\ At(req, "_run_mapping_job", "set_mapping")
        /\ Continues(req, [req EXCEPT !.job = FailedJob(@, DatabaseError, sClock),
                                      !.pc = "set_mapping_job"])
        /\ UNCHANGED <<sDb, sHist, sClock, sStarted, sSeen, sLast>>
        /\ UNCHANGED notSession

\* _run_mapping_job, line 31 or line 41: set_mapping_job raises outside the try
\* statement, the exception leaves the coroutine and the task ends
RunMappingJobSetJobRaises ==
    \E req \in sReq :
        /\ \/ At(req, "_run_mapping_job", "start")
           \/ At(req, "_run_mapping_job", "set_mapping_job")
        /\ sReq' = sReq \ {req}
        /\ UNCHANGED <<sDb, sHist, sClock, sStarted, sSeen, sLast>>
        /\ UNCHANGED notSession

JobNext ==
    \/ GenerateMappingAsyncGet
    \/ GenerateMappingAsyncSetJob
    \/ RunMappingJobStart
    \/ RunMappingJobMap
    \/ RunMappingJobSetMapping
    \/ RunMappingJobSetMappingRaises
    \/ RunMappingJobFinish
    \/ RunMappingJobSetJobRaises
    \/ GetMappingStatus

(***************************************************************************)
(* Claims about the background mapping job (checked under SpecJob)         *)
(***************************************************************************)
TerminalStatuses == {"succeeded", "failed"}

\* the job tasks that end in this step
EndingJobs ==
    {req \in sReq : req.kind = "_run_mapping_job" /\ \A next \in sReq' : next.id # req.id}

\* this step stores a terminal job status
StoresTerminalStatus ==
    /\ sDb'.mapping_job # sDb.mapping_job
    /\ sDb'.mapping_job.status \in TerminalStatuses

\* "succeeded" is stored only by a job whose set_mapping has been done
SucceededOnlyAfterPersisted ==
    (StoresTerminalStatus /\ sDb'.mapping_job.status = "succeeded") =>
        /\ sDb.mapping # NoResult
        /\ \E req \in EndingJobs : req.out # NoResult /\ req.out \in sHist

\* "failed" is stored with the error text, by a job that stored no mapping: a
\* job stores a mapping only in the step that makes it succeeded
FailedCarriesErrorAndNoMapping ==
    /\ (StoresTerminalStatus /\ sDb'.mapping_job.status = "failed") =>
           sDb'.mapping_job.error # NoError
    /\ sDb'.mapping # sDb.mapping =>
           \E req \in sReq, next \in sReq' :
               /\ At(req, "_run_mapping_job", "set_mapping")
               /\ next.id = req.id
               /\ next.job.status = "succeeded"
               /\ sDb'.mapping = req.out

\* a job task ends by storing its one terminal status, completed_at set, and a
\* terminal status is stored by nothing but an ending job
EndsWithOneTerminalStatus ==
    /\ \A req \in EndingJobs :
           /\ req.job.status \in TerminalStatuses
           /\ req.job.completed_at > 0
           /\ sDb'.mapping_job = req.job
    /\ StoresTerminalStatus => EndingJobs # {}

\* the status endpoint returns a mapping, the stored one, whenever it reports
\* "succeeded"
SucceededStatusHasMapping ==
    sStatus'.status = "succeeded" =>
        /\ sStatus'.mapping # NoResult
        /\ sStatus' # sStatus => sStatus'.mapping = sDb.mapping

\* C30: a background mapping job stores "succeeded" only after its mapping has
\* been stored on the session, stores "failed" with the error text and no mapping
\* when mapping or storing raises, and every job task ends having stored exactly
\* one terminal status with completed_at set; the status endpoint returns the
\* mapping whenever it reports "succeeded".
C30_JobEndsWithTerminalStatus ==
    [][/\ SucceededOnlyAfterPersisted
       /\ FailedCarriesErrorAndNoMapping
       /\ EndsWithOneTerminalStatus
       /\ SucceededStatusHasMapping]_vars

(***************************************************************************)
(* Two export_mapping calls, one per session, sharing the file system and  *)
(* the upload store (workbook_export_service.py lines 303-337).  Each      *)
(* statement that touches a file is one step; the steps of the two calls   *)
(* interleave freely.                                                      *)
(***************************************************************************)
ExportSessions == {"s1", "s2"}

\* the directories tempfile.mkdtemp() hands out, in the order it creates them
TmpDirs == <<"tmp1", "tmp2">>

\* TEMPLATE_PATH
TEMPLATE_PATH == <<"constants", "model_input_sheet.xlsx">>

\* a working path that is the template's own path
WorkingCopyIsTemplate(tmp_dir, session_id) == TEMPLATE_PATH

\* tmp_path = tmp_dir / f"{session_id}-model.xlsx"
WorkingCopyPath(tmp_dir, session_id) == <<tmp_dir, session_id>>

Paths ==
    {TEMPLATE_PATH} \cup
    {WorkingCopyPath(TmpDirs[d], s) : d \in 1..Len(TmpDirs), s \in ExportSessions}

NoFile == [exists |-> FALSE, sheet |-> BlankSheet]
File(sheet) == [exists |-> TRUE, sheet |-> sheet]

PairTemplates ==
    { BlankSheet,
      [BlankSheet EXCEPT ![<<"I", 35>>] = FormulaCell],
      [BlankSheet EXCEPT ![<<"K", 28>>] = PlainCell] }

\* the mappings of the two sessions: scalars with unit-mix rows, waterfall rows,
\* a scalar no cell can store
PairDocs == {Doc(SomeScalars, "unit_mix", 2), Doc(NoScalars, "waterfall", 1), PyDict(ListScalar)}

NoState == ProjState(BlankSheet, <<>>, <<>>, FALSE)

\* the locals of one export_mapping call
ExportCall(pc, mapping, tmp_dir, st) == [pc |-> pc, mapping |-> mapping, tmp_dir |-> tmp_dir, st |-> st]

PairInit ==
    /\ eTemplate \in PairTemplates
    /\ eFs = [p \in Paths |-> IF p = TEMPLATE_PATH THEN File(eTemplate) ELSE NoFile]
    /\ eDirs = 0
    /\ eCalls \in [ExportSessions -> {ExportCall("start", d, NONE, NoState) : d \in PairDocs}]
    /\ eCloud = [s \in ExportSessions |-> NoFile]

PairIdle ==
    /\ eTemplate = BlankSheet
    /\ eFs = [p \in Paths |-> NoFile]
    /\ eDirs = 0
    /\ eCalls = [s \in ExportSessions |-> ExportCall("off", NoDoc, NONE, NoState)]
    /\ eCloud = [s \in ExportSessions |-> NoFile]

\* the call of session s moves on; nothing outside its locals changes
LocalStep(s, call) ==
    /\ eCalls' = [eCalls EXCEPT ![s] = call]
    /\ UNCHANGED <<eTemplate, eFs, eDirs, eCloud>>
    /\ UNCHANGED notPair

\* tmp_dir = Path(tempfile.mkdtemp()): a directory nobody else has
Mkdtemp ==
    \E s \in ExportSessions :
        /\ eCalls[s].pc = "start"
        /\ eFs[TEMPLATE_PATH].exists
        /\ eDirs < Len(TmpDirs)
        /\ eDirs' = eDirs + 1
        /\ eCalls' = [eCalls EXCEPT ![s] = [@ EXCEPT !.pc = "copy", !.tmp_dir = TmpDirs[eDirs + 1]]]
        /\ UNCHANGED <<eTemplate, eFs, eCloud>>
        /\ UNCHANGED notPair

\* shutil.copy(TEMPLATE_PATH, tmp_path)
CopyTemplate ==
    \E s \in ExportSessions :
        /\ eCalls[s].pc = "copy"
        /\ eFs' = [eFs EXCEPT ![WorkingCopyPath(eCalls[s].tmp_dir, s)] = eFs[TEMPLATE_PATH]]
        /\ eCalls' = [eCalls EXCEPT ![s] = [@ EXCEPT !.pc = "load"]]
        /\ UNCHANGED <<eTemplate, eDirs, eCloud>>
        /\ UNCHANGED notPair

\* wb = load_workbook(tmp_path); ws = wb[TARGET_SHEET_NAME]; applied_fields = []
LoadWorkbook ==
    \E s \in ExportSessions :
        /\ eCalls[s].pc = "load"
        /\ LocalStep(s, [eCalls[s] EXCEPT
                            !.pc = "scalars",
                            !.st = ProjState(eFs[WorkingCopyPath(eCalls[s].tmp_dir, s)].sheet,
                                             <<>>, <<>>, FALSE)])

\* the call's locals after an _apply_* call that left st
Applied(call, st, next) == [call EXCEPT !.pc = IF st.raised THEN "raised" ELSE next, !.st = st]

PairApplyScalarValues ==
    \E s \in ExportSessions :
        /\ eCalls[s].pc = "scalars"
        /\ LocalStep(s, Applied(eCalls[s], ApplyScalarValuesOp(eCalls[s].st, eCalls[s].mapping),
                                "unit_mix"))

PairApplyUnitMix ==
    \E s \in ExportSessions :
        /\ eCalls[s].pc = "unit_mix"
        /\ LocalStep(s, Applied(eCalls[s], ApplyUnitMixOp(eCalls[s].st, eCalls[s].mapping),
                                "other_income"))

PairApplyOtherIncome ==
    \E s \in ExportSessions :
        /\ eCalls[s].pc = "other_income"
        /\ LocalStep(s, Applied(eCalls[s], ApplyOtherIncomeOp(eCalls[s].st, eCalls[s].mapping),
                                "waterfall"))

PairApplyWaterfall ==
    \E s \in ExportSessions :
        /\ eCalls[s].pc = "waterfall"
        /\ LocalStep(s, Applied(eCalls[s], ApplyWaterfallOp(eCalls[s].st, eCalls[s].mapping),
                                "save"))

\* wb.save(tmp_path)
SaveWorkbook ==
    \E s \in ExportSessions :
        /\ eCalls[s].pc = "save"
        /\ eFs' = [eFs EXCEPT ![WorkingCopyPath(eCalls[s].tmp_dir, s)] = File(eCalls[s].st.ws)]
        /\ eCalls' = [eCalls EXCEPT ![s] = [@ EXCEPT !.pc = "upload"]]
        /\ UNCHANGED <<eTemplate, eDirs, eCloud>>
        /\ UNCHANGED notPair

\* upload_raw(str(tmp_path), public_id="model-input", folder=".../exports/{session_id}");
\* return ExportResponse(download_url, applied_fields)
UploadRaw ==
    \E s \in ExportSessions :
        /\ eCalls[s].pc = "upload"
        /\ eCloud' = [eCloud EXCEPT ![s] = eFs[WorkingCopyPath(eCalls[s].tmp_dir, s)]]
        /\ eCalls' = [eCalls EXCEPT ![s] = [@ EXCEPT !.pc = "done"]]
        /\ UNCHANGED <<eTemplate, eFs, eDirs>>
        /\ UNCHANGED notPair

PairNext ==
    \/ Mkdtemp
    \/ CopyTemplate
    \/ LoadWorkbook
    \/ PairApplyScalarValues
    \/ PairApplyUnitMix
    \/ PairApplyOtherIncome
    \/ PairApplyWaterfall
    \/ SaveWorkbook
    \/ UploadRaw

\* the sheet and the applied fields export_mapping produces from a template and a
\* mapping when it runs alone
SoloExport(template, mapped) ==
    ApplyWaterfallOp(
        ApplyOtherIncomeOp(
            ApplyUnitMixOp(
                ApplyScalarValuesOp(ProjState(template, <<>>, <<>>, FALSE), mapped),
                mapped),
            mapped),
        mapped)

\* C14: however the steps of two export calls for two sessions interleave, the
\* template file keeps its content, each call works on a path of its own, and the
\* workbook a call saves and uploads, like the applied fields it returns, is the
\* one an export of that session's mapping alone produces from the template.
C14_ExportIsolation ==
    /\ eFs[TEMPLATE_PATH] = File(eTemplate)
    /\ \A s \in ExportSessions :
          LET call == eCalls[s]
              path == WorkingCopyPath(call.tmp_dir, s)
              solo(x) ==
                  /\ eFs[path] = File(x.ws)
                  /\ call.st.ws = x.ws
                  /\ call.st.applied = x.applied
                  /\ call.pc = "done" => eCloud[s] = File(x.ws)
          IN  /\ call.pc \in {"upload", "done"} => solo(SoloExport(eTemplate, call.mapping))
              /\ call.pc \notin {"off", "start"} =>
                    /\ path # TEMPLATE_PATH
                    /\ \A o \in ExportSessions \ {s} :
                          eCalls[o].pc \notin {"off", "start"} =>
                              path # WorkingCopyPath(eCalls[o].tmp_dir, o)
              /\ call.pc \in {"load", "scalars", "unit_mix", "other_income", "waterfall", "save"} =>
                    eFs[path] = File(eTemplate)

\* session s1 has saved its workbook while session s2, which made its working
\* copy first, is in the middle of its _apply_* calls on another mapping; both
\* sheets differ from the template and from each other
C14_Witness ==
    /\ eCalls["s1"].pc = "upload"
    /\ eCalls["s2"].pc = "other_income"
    /\ eCalls["s2"].tmp_dir = "tmp1"
    /\ eCalls["s1"].mapping # eCalls["s2"].mapping
    /\ eFs[WorkingCopyPath(eCalls["s1"].tmp_dir, "s1")].sheet # eTemplate
    /\ eCalls["s2"].st.ws # eTemplate
    /\ eCalls["s2"].st.ws # eFs[WorkingCopyPath(eCalls["s1"].tmp_dir, "s1")].sheet

(***************************************************************************)
(* Specifications                                                          *)
(***************************************************************************)
NormalizeInit == NormInit /\ CoerceIdle /\ ExportIdle /\ ParseIdle /\ SessionIdle /\ PairIdle /\ StatusIdle

SpecNormalize == NormalizeInit /\ [][NormNext]_vars

CoerceOnlyInit == CoerceInit /\ NormIdle /\ ExportIdle /\ ParseIdle /\ SessionIdle /\ PairIdle /\ StatusIdle

CoerceNext == CoerceCall

SpecCoerce == CoerceOnlyInit /\ [][CoerceNext]_vars

ExportOnlyInit == ExportInit /\ NormIdle /\ CoerceIdle /\ ParseIdle /\ SessionIdle /\ PairIdle /\ StatusIdle

SpecExport == ExportOnlyInit /\ [][ExportNext]_vars

ParseOnlyInit == ParseInit /\ NormIdle /\ CoerceIdle /\ ExportIdle /\ SessionIdle /\ PairIdle /\ StatusIdle

SpecParse == ParseOnlyInit /\ [][ParseNext]_vars

SessionOnlyInit == SessionInit /\ NormIdle /\ CoerceIdle /\ ExportIdle /\ ParseIdle /\ PairIdle /\ StatusIdle

SpecSession == SessionOnlyInit /\ [][SessionNext]_vars

PairOnlyInit == PairInit /\ NormIdle /\ CoerceIdle /\ ExportIdle /\ ParseIdle /\ SessionIdle /\ StatusIdle

SpecExportPair == PairOnlyInit /\ [][PairNext]_vars

JobOnlyInit == SessionInit /\ StatusIdle /\ NormIdle /\ CoerceIdle /\ ExportIdle /\ ParseIdle /\ PairIdle

SpecJob == JobOnlyInit /\ [][JobNext]_vars

====
